---- MODULE Spec2Model ----
(***************************************************************************)
(* A model of the retrieval-and-fusion core (src/src/retriever.py) and of  *)
(* the chunking engine (src/src/chunker.py) of RAG-Autopsy.                *)
(*                                                                         *)
(* Text is a sequence of one-character strings.  A Python float is a       *)
(* fixed-point integer counting millionths (Fix = 1.0); math.log and       *)
(* math.sqrt are computed to that resolution.  The fused RRF scores of the *)
(* HybridRetriever are sums of unit fractions and are kept exact, as       *)
(* <<numerator, denominator>>.                                             *)
(***************************************************************************)
EXTENDS Integers, Sequences, FiniteSets, TLC

\* d[k] of a dict or s[i] of a list kept as a function: a KeyError or an
\* IndexError outside the domain
At(d, k) == CASE k \in DOMAIN d -> d[k]

(***************************************************************************)
(* Characters and strings (Python str).                                    *)
(***************************************************************************)
ascii_lowercase ==
    << "a", "b", "c", "d", "e", "f", "g", "h", "i", "j", "k", "l", "m",
       "n", "o", "p", "q", "r", "s", "t", "u", "v", "w", "x", "y", "z" >>

ascii_uppercase ==
    << "A", "B", "C", "D", "E", "F", "G", "H", "I", "J", "K", "L", "M",
       "N", "O", "P", "Q", "R", "S", "T", "U", "V", "W", "X", "Y", "Z" >>

digits == { "0", "1", "2", "3", "4", "5", "6", "7", "8", "9" }

Range(s) == { At(s, i) : i \in DOMAIN s }

LowerLetters == Range(ascii_lowercase)

UpperLetters == Range(ascii_uppercase)

\* \w of the re module, on the characters the model uses
WordChars == LowerLetters \cup UpperLetters \cup digits \cup { "_" }

\* \s of the re module and the characters str.strip removes, on the characters
\* the model uses
Whitespace == { " ", "\n", "\t" }

\* str.isspace
IsSpace(c) == c \in Whitespace

LowerOf ==
    [c \in UpperLetters |->
        ascii_lowercase[CHOOSE i \in DOMAIN ascii_uppercase : ascii_uppercase[i] = c]]

\* str.lower
lower(text) ==
    [i \in DOMAIN text |-> IF text[i] \in UpperLetters THEN LowerOf[text[i]] ELSE text[i]]

Min(a, b) == IF a <= b THEN a ELSE b

Max(a, b) == IF a >= b THEN a ELSE b

\* the maximal runs within s[lo..hi] of characters of the set chars, as
\* <<first, last>> positions in order; a run that crosses the middle is joined
\* from its halves
RECURSIVE Runs(_, _, _, _)
Runs(s, chars, lo, hi) ==
    IF lo > hi THEN << >>
    ELSE IF lo = hi
    THEN (IF At(s, lo) \in chars THEN << << lo, lo >> >> ELSE << >>)
    ELSE LET mid == (lo + hi) \div 2
             left == Runs(s, chars, lo, mid)
             right == Runs(s, chars, mid + 1, hi)
         IN  IF /\ left # << >>
                /\ right # << >>
                /\ At(At(left, Len(left)), 2) = mid
                /\ At(Head(right), 1) = mid + 1
             THEN SubSeq(left, 1, Len(left) - 1)
                  \o << << At(At(left, Len(left)), 1), At(Head(right), 2) >> >>
                  \o Tail(right)
             ELSE left \o right

\* s[:k] of a Python list (a negative k counts from the end)
SliceTo(s, k) ==
    IF k >= 0 THEN SubSeq(s, 1, Min(k, Len(s)))
    ELSE SubSeq(s, 1, Max(0, Len(s) + k))

\* s[lo] + ... + s[hi], summed by halves
RECURSIVE SumRange(_, _, _)
SumRange(s, lo, hi) ==
    IF lo > hi THEN 0
    ELSE IF lo = hi THEN At(s, lo)
    ELSE LET mid == (lo + hi) \div 2
         IN  SumRange(s, lo, mid) + SumRange(s, mid + 1, hi)

\* sum(s)
SumSeq(s) == SumRange(s, 1, Len(s))

\* dict.get(k, default)
Get(d, k, default) == IF k \in DOMAIN d THEN d[k] ELSE default

(***************************************************************************)
(* Floats as fixed-point millionths.                                       *)
(***************************************************************************)
Fix == 10^6

Half == Fix \div 2

\* a * b
FMul(a, b) ==
    LET a1 == a \div 1000
        a0 == a % 1000
        b1 == b \div 1000
        b0 == b % 1000
    IN  a1 * b1 + ((a1 * b0 + a0 * b1 + ((a0 * b0) \div 1000)) \div 1000)

RECURSIVE FracDigits(_, _, _)
FracDigits(r, b, n) ==
    IF n = 0 THEN 0
    ELSE ((r * 10) \div b) * 10^(n - 1) + FracDigits((r * 10) % b, b, n - 1)

\* a / b, for two floats or for two ints (the quotient as a float)
FDiv(a, b) == (a \div b) * Fix + FracDigits(a % b, b, 6)

RECURSIVE AtanhSeries(_, _, _)
AtanhSeries(pow, z2, k) ==
    IF pow = 0 \/ k > 15 THEN 0
    ELSE (pow \div k) + AtanhSeries(FMul(pow, z2), z2, k + 2)

Ln2 == FDiv(693147, Fix)

RECURSIVE LogReduced(_)
LogReduced(x) ==
    IF x >= 2 * Fix THEN Ln2 + LogReduced(x \div 2)
    ELSE LET z == FDiv(x - Fix, x + Fix)
         IN  2 * AtanhSeries(z, FMul(z, z), 1)

\* math.log(x), x > 0
FLog(x) == IF x >= Fix THEN LogReduced(x) ELSE 0 - LogReduced(FDiv(Fix, x))

RECURSIVE Newton(_, _)
Newton(x, y) ==
    LET y2 == (y + FDiv(x, y)) \div 2
    IN  IF y2 >= y THEN y ELSE Newton(x, y2)

\* math.sqrt(x), x >= 0
FSqrt(x) == IF x = 0 THEN 0 ELSE Newton(x, Max(x, Fix))

\* round(x, ndigits): to the nearest multiple of 10^-ndigits, ndigits <= 6
FRound(x, ndigits) ==
    LET unit == 10^(6 - ndigits)
    IN  ((x + unit \div 2) \div unit) * unit

(***************************************************************************)
(* Tokenisation: re.findall(r"\b[a-z]{2,}\b", text.lower()) minus the      *)
(* stopwords.  Between two \b the pattern matches a whole maximal run of   *)
(* word characters, and only one made of two or more letters a-z.          *)
(***************************************************************************)
\* the maximal runs of word characters of s
WordRuns(s) ==
    LET spans == Runs(s, WordChars, 1, Len(s))
    IN  [k \in DOMAIN spans |-> SubSeq(s, At(At(spans, k), 1), At(At(spans, k), 2))]

\* [a-z]{n,} between two \b: a run of word characters, all of them lower-case
\* letters, at least n long
IsLowerWord(run, n) == Len(run) >= n /\ \A i \in DOMAIN run : At(run, i) \in LowerLetters

IsToken(run) == IsLowerWord(run, 2)

\* re.findall(r"\b[a-z]{2,}\b", s)
findall_words(s) == SelectSeq(WordRuns(s), IsToken)

\* the stopword set of _tokenize (and, verbatim, of CosineRetriever._tf)
stopwords ==
    { <<"t", "h", "e">>,
      <<"a">>,
      <<"a", "n">>,
      <<"i", "s">>,
      <<"i", "t">>,
      <<"i", "n">>,
      <<"o", "n">>,
      <<"a", "t">>,
      <<"t", "o">>,
      <<"f", "o", "r">>,
      <<"o", "f">>,
      <<"a", "n", "d">>,
      <<"o", "r">>,
      <<"b", "u", "t">>,
      <<"w", "i", "t", "h">>,
      <<"b", "y">>,
      <<"f", "r", "o", "m">>,
      <<"b", "e">>,
      <<"a", "r", "e">> }

IsNotStopword(t) == t \notin stopwords

\* BM25Retriever._tokenize
_tokenize(text) == SelectSeq(findall_words(lower(text)), IsNotStopword)

Count(s, x) == Cardinality({ i \in DOMAIN s : At(s, i) = x })

(***************************************************************************)
(* RetrievalResult, and what a call does: it raises, or returns a list.    *)
(***************************************************************************)
RetrievalResult(chunk_id, text, score, rank, retriever) ==
    [chunk_id |-> chunk_id, text |-> text, score |-> score, rank |-> rank,
     retriever |-> retriever]

Raise(exception) == [raised |-> exception, returned |-> FALSE, results |-> << >>]

Return(results) == [raised |-> "none", returned |-> TRUE, results |-> results]

\* list.sort(reverse=True) of (score, i) tuples: the i are distinct, so the
\* order is total and every sorting algorithm gives the same list
TupleGreater(x, y) ==
    At(x, 1) > At(y, 1) \/ (At(x, 1) = At(y, 1) /\ At(x, 2) > At(y, 2))

\* a sort by score alone that keeps documents of equal score in corpus order
ScoreGreaterThenEarlier(x, y) ==
    At(x, 1) > At(y, 1) \/ (At(x, 1) = At(y, 1) /\ At(x, 2) < At(y, 2))

sort_by_score_stable(scores) == SortSeq(scores, ScoreGreaterThenEarlier)

\* list.sort(reverse=True) of (score, i) tuples; no two tuples are equal
sort_reverse(scores) == SortSeq(scores, TupleGreater)

(***************************************************************************)
(* BM25Retriever                                                           *)
(***************************************************************************)
DEFAULT_K1 == (3 * Fix) \div 2

DEFAULT_B == (3 * Fix) \div 4

BM25Retriever(k1, b) ==
    [k1 |-> k1, b |-> b, _docs |-> << >>, _tf |-> << >>, _df |-> << >>, _avgdl |-> 0]

term_counts(tokens) == [t \in Range(tokens) |-> Count(tokens, t)]

BM25Retriever_index_appending(self, documents) ==
    LET all == self._docs \o documents
        tokens == [i \in DOMAIN all |-> _tokenize(At(all, i).text)]
        tf == [i \in DOMAIN all |-> term_counts(At(tokens, i))]
        terms == UNION { DOMAIN At(tf, i) : i \in DOMAIN all }
        df == [term \in terms |->
                  Cardinality({ i \in DOMAIN all : term \in DOMAIN At(tf, i) })]
        total_len == SumSeq([i \in DOMAIN all |-> Len(At(tokens, i))])
    IN  [self EXCEPT !._docs = all,
                     !._tf = tf,
                     !._df = df,
                     !._avgdl = IF all # << >> THEN FDiv(total_len, Len(all)) ELSE Fix]

BM25Retriever_index(self, documents) ==
    LET tokens == [i \in DOMAIN documents |-> _tokenize(At(documents, i).text)]
        tf == [i \in DOMAIN documents |-> term_counts(At(tokens, i))]
        terms == UNION { DOMAIN At(tf, i) : i \in DOMAIN documents }
        df == [term \in terms |->
                  Cardinality({ i \in DOMAIN documents : term \in DOMAIN At(tf, i) })]
        total_len == SumSeq([i \in DOMAIN documents |-> Len(At(tokens, i))])
    IN  [self EXCEPT !._docs = documents,
                     !._tf = tf,
                     !._df = df,
                     !._avgdl = IF documents # << >>
                                THEN FDiv(total_len, Len(documents))
                                ELSE Fix]

bm25_idf_unshifted(n, df_val) == FLog(FDiv(2 * (n - df_val) + 1, 2 * df_val + 1))

\* idf = math.log((n - df_val + 0.5) / (df_val + 0.5) + 1); the quotient is
\* taken of the two halves-counts 2(n - df_val) + 1 and 2 df_val + 1
bm25_idf(n, df_val) ==
    FLog(FDiv(2 * (n - df_val) + 1, 2 * df_val + 1) + Fix)

bm25_term_score_default_one(self, i, term, n, dl) ==
    LET tf_val == Get(At(self._tf, i), term, 1)
        df_val == Get(self._df, term, 0)
        idf == FLog(FDiv(2 * (n - df_val) + 1, 2 * df_val + 1) + Fix)
        numerator == tf_val * (self.k1 + Fix)
        denominator ==
            tf_val * Fix
            + FMul(self.k1, Fix - self.b + FMul(self.b, FDiv(dl * Fix, self._avgdl)))
    IN  FDiv(FMul(idf, numerator), denominator)

\* one pass of the loop over query_terms, lines 80-88
bm25_term_score(self, i, term, n, dl) ==
    IF term \notin DOMAIN At(self._tf, i) THEN 0
    ELSE LET tf_val == At(At(self._tf, i), term)
             df_val == Get(self._df, term, 0)
             idf == bm25_idf(n, df_val)
             numerator == tf_val * (self.k1 + Fix)
             denominator ==
                 tf_val * Fix
                 + FMul(self.k1,
                        Fix - self.b + FMul(self.b, FDiv(dl * Fix, self._avgdl)))
         IN  FDiv(FMul(idf, numerator), denominator)

RECURSIVE SumValues(_, _)
SumValues(d, keys) ==
    IF keys = {} THEN 0
    ELSE LET k == CHOOSE k \in keys : TRUE
         IN  At(d, k) + SumValues(d, keys \ {k})

\* sum(d.values())
dict_sum(d) == SumValues(d, DOMAIN d)

\* the score of document i before rounding, lines 78-88
bm25_score(self, i, query_terms) ==
    LET n == Len(self._docs)
        dl == dict_sum(At(self._tf, i))
    IN  SumSeq([k \in DOMAIN query_terms |->
                   bm25_term_score(self, i, At(query_terms, k), n, dl)])

bm25_results_zero_based(self, ranked) ==
    [r \in DOMAIN ranked |->
        LET score == At(At(ranked, r), 1)
            idx == At(At(ranked, r), 2)
        IN  RetrievalResult(At(self._docs, idx).id, At(self._docs, idx).text,
                            FRound(score, 4), r - 1, "bm25")]

\* lines 92-101: the results of the ranked (score, idx) tuples
bm25_results(self, ranked) ==
    [r \in DOMAIN ranked |->
        LET score == At(At(ranked, r), 1)
            idx == At(At(ranked, r), 2)
        IN  RetrievalResult(At(self._docs, idx).id, At(self._docs, idx).text,
                            FRound(score, 4), r, "bm25")]

\* lines 73-91: the (score, i) tuples, sorted
bm25_scores(self, query) ==
    LET query_terms == _tokenize(query)
    IN  sort_reverse([i \in DOMAIN self._docs |->
                         << bm25_score(self, i, query_terms), i >>])

IsPositive(tuple) == At(tuple, 1) > 0

BM25Retriever_retrieve_unguarded(self, query, top_k) ==
    Return(bm25_results(self, SliceTo(bm25_scores(self, query), top_k)))

BM25Retriever_retrieve_matches_only(self, query, top_k) ==
    IF self._docs = << >>
    THEN Raise("RuntimeError")
    ELSE Return(bm25_results(self,
                    SliceTo(SelectSeq(bm25_scores(self, query), IsPositive), top_k)))

\* BM25Retriever.retrieve; self._tf[i] raises IndexError in the first pass of
\* the loop that finds no entry i, when _docs is longer than _tf
BM25Retriever_retrieve(self, query, top_k) ==
    IF self._docs = << >>
    THEN Raise("RuntimeError")
    ELSE IF Len(self._docs) > Len(self._tf)
    THEN Raise("IndexError")
    ELSE Return(bm25_results(self, SliceTo(bm25_scores(self, query), top_k)))

(***************************************************************************)
(* CosineRetriever                                                         *)
(***************************************************************************)
CosineRetriever == [_docs |-> << >>, _vectors |-> << >>]

\* CosineRetriever._tf
CosineRetriever_tf(text) ==
    LET tokens == _tokenize(text)
        counts == term_counts(tokens)
        total == IF dict_sum(counts) # 0 THEN dict_sum(counts) ELSE 1
    IN  [w \in DOMAIN counts |-> FDiv(At(counts, w), total)]

RECURSIVE MaxValue(_, _)
MaxValue(d, keys) ==
    IF keys = {} THEN 0
    ELSE LET k == CHOOSE k \in keys : TRUE
         IN  Max(At(d, k), MaxValue(d, keys \ {k}))

\* math.sqrt(sum(v * v for v in vec.values())), taken as m * sqrt(sum((v/m)^2))
\* with m the largest weight, so that it is 0 exactly when every weight is 0
vector_norm(vec) ==
    LET m == MaxValue(vec, DOMAIN vec)
        unit == [k \in DOMAIN vec |-> FDiv(At(vec, k), m)]
        squares == [k \in DOMAIN vec |-> FMul(At(unit, k), At(unit, k))]
    IN  IF m = 0 THEN 0 ELSE FMul(m, FSqrt(dict_sum(squares)))

\* CosineRetriever._normalize; with a zero norm the divisor is 1e-9 and every
\* weight is 0.0, so every quotient is 0.0
CosineRetriever_normalize(vec) ==
    LET norm == vector_norm(vec)
    IN  IF norm = 0 THEN [k \in DOMAIN vec |-> 0]
        ELSE [k \in DOMAIN vec |-> FDiv(At(vec, k), norm)]

\* CosineRetriever._cosine
CosineRetriever_cosine(a, b) ==
    dict_sum([k \in DOMAIN b |-> FMul(Get(a, k, 0), At(b, k))])

\* idf = math.log((n + 1) / (df.get(term, 0) + 1))
cosine_idf(n, df_val) == FLog(FDiv(n + 1, df_val + 1))

CosineRetriever_index(self, documents) ==
    LET tf_lists == [i \in DOMAIN documents |-> CosineRetriever_tf(At(documents, i).text)]
        n == Len(documents)
        terms == UNION { DOMAIN At(tf_lists, i) : i \in DOMAIN documents }
        df == [term \in terms |->
                  Cardinality({ i \in DOMAIN documents : term \in DOMAIN At(tf_lists, i) })]
        vec(i) == [term \in DOMAIN At(tf_lists, i) |->
                      FMul(At(At(tf_lists, i), term), cosine_idf(n, Get(df, term, 0)))]
    IN  [self EXCEPT !._docs = documents,
                     !._vectors = [i \in DOMAIN documents |->
                                      CosineRetriever_normalize(vec(i))]]

cosine_results(self, ranked) ==
    [r \in DOMAIN ranked |->
        LET score == At(At(ranked, r), 1)
            idx == At(At(ranked, r), 2)
        IN  RetrievalResult(At(self._docs, idx).id, At(self._docs, idx).text,
                            FRound(score, 4), r, "cosine")]

\* lines 150-155: the (sim, i) tuples, sorted
cosine_scores(self, query) ==
    LET q_vec == CosineRetriever_normalize(CosineRetriever_tf(query))
    IN  sort_reverse([i \in DOMAIN self._vectors |->
                         << CosineRetriever_cosine(q_vec, At(self._vectors, i)), i >>])

CosineRetriever_retrieve(self, query, top_k) ==
    IF self._docs = << >>
    THEN Raise("RuntimeError")
    ELSE Return(cosine_results(self, SliceTo(cosine_scores(self, query), top_k)))

(***************************************************************************)
(* HybridRetriever.  rrf_scores is a dict in insertion order: a sequence   *)
(* of <<chunk_id, score>>, the score an exact fraction <<num, den>>.       *)
(***************************************************************************)
DEFAULT_ALPHA == Fix \div 2

HybridRetriever(alpha, rrf_k) ==
    [alpha |-> alpha, rrf_k |-> rrf_k,
     bm25 |-> BM25Retriever(DEFAULT_K1, DEFAULT_B), cosine |-> CosineRetriever]

HybridRetriever_index(self, documents) ==
    [self EXCEPT !.bm25 = BM25Retriever_index(self.bm25, documents),
                 !.cosine = CosineRetriever_index(self.cosine, documents)]

RatAdd(x, y) == << At(x, 1) * At(y, 2) + At(y, 1) * At(x, 2), At(x, 2) * At(y, 2) >>

RatGreater(x, y) == At(x, 1) * At(y, 2) > At(y, 1) * At(x, 2)

RatEqual(x, y) == At(x, 1) * At(y, 2) = At(y, 1) * At(x, 2)

\* round(score, 6) of a fraction
RatRound6(x) ==
    LET num == At(x, 1)
        den == At(x, 2)
    IN  (num \div den) * Fix + ((FracDigits(num % den, den, 7) + 5) \div 10)

fetch_k_uncapped(top_k) == top_k * 3

\* fetch_k = min(top_k * 3, 20)
fetch_k_of(top_k) == Min(top_k * 3, 20)

\* rrf_scores[chunk_id] = rrf_scores.get(chunk_id, 0) + contribution: a key the
\* dict holds keeps its place, a new key goes last
RECURSIVE dict_add(_, _, _)
dict_add(rrf_scores, chunk_id, contribution) ==
    IF rrf_scores = << >> THEN << << chunk_id, contribution >> >>
    ELSE IF At(Head(rrf_scores), 1) = chunk_id
    THEN << << chunk_id, RatAdd(At(Head(rrf_scores), 2), contribution) >> >>
         \o Tail(rrf_scores)
    ELSE << Head(rrf_scores) >> \o dict_add(Tail(rrf_scores), chunk_id, contribution)

rrf_add_rank_weight(rrf_scores, r, rrf_k) ==
    dict_add(rrf_scores, r.chunk_id, << rrf_k + r.rank, 1 >>)

\* rrf_scores[r.chunk_id] = rrf_scores.get(r.chunk_id, 0) + 1 / (self.rrf_k + r.rank)
rrf_add(rrf_scores, r, rrf_k) == dict_add(rrf_scores, r.chunk_id, << 1, rrf_k + r.rank >>)

RECURSIVE rrf_accumulate(_, _, _)
rrf_accumulate(rrf_scores, results, rrf_k) ==
    IF results = << >> THEN rrf_scores
    ELSE rrf_accumulate(rrf_add(rrf_scores, Head(results), rrf_k), Tail(results), rrf_k)

\* sorted(items, key=lambda x: x[1], reverse=True): stable, equal scores keep
\* their insertion order
RECURSIVE InsertByScore(_, _)
InsertByScore(sorted, x) ==
    IF sorted = << >> THEN << x >>
    ELSE IF RatGreater(At(Head(sorted), 2), At(x, 2)) \/ RatEqual(At(Head(sorted), 2), At(x, 2))
    THEN << Head(sorted) >> \o InsertByScore(Tail(sorted), x)
    ELSE << x >> \o sorted

RECURSIVE sorted_by_score(_, _)
sorted_by_score(items, n) ==
    IF n = 0 THEN << >>
    ELSE InsertByScore(sorted_by_score(items, n - 1), At(items, n))

\* doc_text[chunk_id]: the text of the last result written under that id
doc_text(results, chunk_id) ==
    LET js == { j \in DOMAIN results : At(results, j).chunk_id = chunk_id }
    IN  At(results, CHOOSE j \in js : \A j2 \in js : j2 <= j).text

hybrid_results(ranked, both) ==
    [r \in DOMAIN ranked |->
        LET chunk_id == At(At(ranked, r), 1)
            score == At(At(ranked, r), 2)
        IN  RetrievalResult(chunk_id, doc_text(both, chunk_id), RatRound6(score), r,
                            "hybrid_rrf")]

\* a fusion that weights the BM25 contributions by alpha and the cosine
\* contributions by 1 - alpha (alpha taken in halves)
RECURSIVE rrf_accumulate_weighted(_, _, _, _)
rrf_accumulate_weighted(rrf_scores, results, rrf_k, halves) ==
    IF results = << >> THEN rrf_scores
    ELSE rrf_accumulate_weighted(
             dict_add(rrf_scores, Head(results).chunk_id,
                      << halves, 2 * (rrf_k + Head(results).rank) >>),
             Tail(results), rrf_k, halves)

hybrid_frame_weighted(self, query, top_k) ==
    LET fetch_k == fetch_k_of(top_k)
        bm25_out == BM25Retriever_retrieve(self.bm25, query, fetch_k)
        cosine_out == CosineRetriever_retrieve(self.cosine, query, fetch_k)
        both == bm25_out.results \o cosine_out.results
        halves == self.alpha \div (Fix \div 2)
        rrf_scores == rrf_accumulate_weighted(
                          rrf_accumulate_weighted(<< >>, bm25_out.results, self.rrf_k, halves),
                          cosine_out.results, self.rrf_k, 2 - halves)
        ranked == SliceTo(sorted_by_score(rrf_scores, Len(rrf_scores)), top_k)
    IN  [fetch_k |-> fetch_k,
         bm25_results |-> bm25_out.results,
         cosine_results |-> IF bm25_out.returned THEN cosine_out.results ELSE << >>,
         out |-> IF ~bm25_out.returned THEN bm25_out
                 ELSE IF ~cosine_out.returned THEN cosine_out
                 ELSE Return(hybrid_results(ranked, both))]

\* HybridRetriever.retrieve with its locals; an exception of a sub-retriever
\* propagates, and 1 / (self.rrf_k + r.rank) raises ZeroDivisionError when
\* rrf_k + r.rank is 0
hybrid_frame(self, query, top_k) ==
    LET fetch_k == fetch_k_of(top_k)
        bm25_out == BM25Retriever_retrieve(self.bm25, query, fetch_k)
        cosine_out == CosineRetriever_retrieve(self.cosine, query, fetch_k)
        both == bm25_out.results \o cosine_out.results
        rrf_scores == rrf_accumulate(<< >>, both, self.rrf_k)
        ranked == SliceTo(sorted_by_score(rrf_scores, Len(rrf_scores)), top_k)
    IN  [fetch_k |-> fetch_k,
         bm25_results |-> bm25_out.results,
         cosine_results |-> IF bm25_out.returned THEN cosine_out.results ELSE << >>,
         out |-> IF ~bm25_out.returned THEN bm25_out
                 ELSE IF ~cosine_out.returned THEN cosine_out
                 ELSE IF \E j \in DOMAIN both : self.rrf_k + At(both, j).rank = 0
                 THEN Raise("ZeroDivisionError")
                 ELSE Return(hybrid_results(ranked, both))]

HybridRetriever_retrieve(self, query, top_k) == hybrid_frame(self, query, top_k).out

(***************************************************************************)
(* Documents, corpora and queries the program is run on.                   *)
(***************************************************************************)
TEXT_REFUND ==
    << "C", "u", "s", "t", "o", "m", "e", "r", "s", " ", "m", "a", "y", " ", "r", "e", "t",
       "u", "r", "n", " ", "m", "o", "s", "t", " ", "i", "t", "e", "m", "s", " ", "w", "i",
       "t", "h", "i", "n", " ", "3", "0", " ", "d", "a", "y", "s", " ", "o", "f", " ", "t",
       "h", "e", " ", "p", "u", "r", "c", "h", "a", "s", "e", " ", "d", "a", "t", "e", " ",
       "f", "o", "r", " ", "a", " ", "f", "u", "l", "l", " ", "r", "e", "f", "u", "n", "d", "." >>

TEXT_SHIPPING ==
    << "R", "e", "t", "u", "r", "n", " ", "s", "h", "i", "p", "p", "i", "n", "g", " ", "i",
       "s", " ", "F", "R", "E", "E", "." >>

TEXT_NOTICE ==
    << "I", "t", " ", "i", "s", " ", "t", "h", "e", " ", "A", "1", " ", "o", "f", " ", "3",
       "0", "." >>

TEXT_ITEM ==
    << "R", "e", "t", "u", "r", "n", " ", "i", "t", "e", "m", ",", " ", "r", "e", "t", "u",
       "r", "n", "!" >>

QUERY_RETURN_WINDOW ==
    << "H", "o", "w", " ", "l", "o", "n", "g", " ", "d", "o", " ", "I", " ", "h", "a", "v",
       "e", " ", "t", "o", " ", "r", "e", "t", "u", "r", "n", " ", "a", "n", " ", "i", "t",
       "e", "m", "?" >>

QUERY_KEYWORDS ==
    << "R", "E", "T", "U", "R", "N", " ", "t", "h", "e", " ", "r", "e", "f", "u", "n", "d" >>

QUERY_SYNONYM ==
    << "z", "e", "b", "r", "a" >>

QUERY_STOPWORDS ==
    << "I", "s", " ", "i", "t", " ", "A", "1", "?" >>


Doc(id, text) == [id |-> id, text |-> text]

CORPUS_EMPTY == << >>

CORPUS_ONE == << Doc("refund_policy", TEXT_REFUND) >>

CORPUS_TWO == << Doc("shipping", TEXT_SHIPPING), Doc("items", TEXT_ITEM) >>

CORPUS_THREE ==
    << Doc("items", TEXT_ITEM), Doc("notice", TEXT_NOTICE), Doc("shipping", TEXT_SHIPPING) >>

\* a corpus larger than the 20 candidates HybridRetriever fetches; every
\* document of it holds the token "return", and the first two hold nothing else
MidN == 22

TEXT_RETURN == << "r", "e", "t", "u", "r", "n" >>

MidTexts ==
    << TEXT_RETURN \o << " ", "i", "t", "e", "m" >>,
       TEXT_RETURN \o << " ", "f", "r", "e", "e" >> >>

MidDoc(i) == Doc("m" \o ToString(i), IF i <= 2 THEN TEXT_RETURN ELSE MidTexts[(i % 2) + 1])

CORPUS_MID == [i \in 1..MidN |-> MidDoc(i)]

Corpora == { CORPUS_EMPTY, CORPUS_ONE, CORPUS_TWO, CORPUS_THREE, CORPUS_MID }

Queries == { QUERY_RETURN_WINDOW, QUERY_KEYWORDS, QUERY_SYNONYM, QUERY_STOPWORDS }

MaxTopK == 3

\* the smallest top_k whose tripled value exceeds the fetch cap of 20
CapTopK == (20 \div 3) + 1

TopKs == (0..MaxTopK) \cup { CapTopK }

RrfKs == { 0, 60 }

Kinds == { "bm25", "cosine", "hybrid" }

(***************************************************************************)
(* State.  A run constructs one retriever and then calls index() and       *)
(* retrieve() on it in any order.                                          *)
(***************************************************************************)
VARIABLES
    kind,        \* the class of the retriever constructed
    retriever,   \* the retriever object
    last,        \* the last call and what it did
    indexed,     \* history: the documents given to the most recent index(), and
                 \* whether that call replaced an earlier index
    earlier,     \* history: one retrieve() call made before the last call and
                 \* after the most recent index()
    chunker,     \* the Chunker object, once constructed
    chunked,     \* the last chunk() call and what it did
    before,      \* history: the chunk() call made before the last one
    threads      \* the index() and the retrieve() call in progress on the retriever

vars == << kind, retriever, last, indexed, earlier, chunker, chunked, before, threads >>

chunkerVars == << chunker, chunked, before >>

retrieverVars == << kind, retriever, last, indexed, earlier, threads >>

NoCall ==
    [op |-> "none", query |-> << >>, top_k |-> 0, out |-> Return(<< >>),
     fetch_k |-> 0, bm25_results |-> << >>, cosine_results |-> << >>]

Call(op, query, top_k, out) ==
    [NoCall EXCEPT !.op = op, !.query = query, !.top_k = top_k, !.out = out]

NoChunker ==
    [status |-> "none", strategy |-> "", chunk_size |-> 0, overlap |-> 0,
     max_sentences |-> 0, similarity_threshold |-> << 0, 1 >>]

NoChunkCall == [op |-> "none", self |-> NoChunker, text |-> << >>, out |-> Return(<< >>)]

\* no Chunker has been constructed
NoChunking ==
    /\ chunker = NoChunker
    /\ chunked = NoChunkCall
    /\ before = NoChunkCall

NeverIndexed == [called |-> FALSE, documents |-> << >>, rebuilt |-> FALSE]

\* an index() call in progress: the statement it is at, its argument and the
\* document its loop is at
NoIndexing == [pc |-> "idle", documents |-> << >>, i |-> 0]

\* a retrieve() call in progress: the statement it is at, its arguments and
\* locals, and, as history, whether it read an index that was not fully built
NoRetrieving ==
    [pc |-> "idle", query |-> << >>, top_k |-> 0, n |-> 0, docs |-> << >>, i |-> 0,
     scores |-> << >>, mixed |-> FALSE]

\* no call in progress; mutex says whether the callers hold a lock around
\* every call, and the counters say how many calls were made
NoThreads ==
    [mutex |-> FALSE, lock |-> "free", index |-> NoIndexing, retrieve |-> NoRetrieving,
     index_calls |-> 0, retrieve_calls |-> 0]

Constructed(k) ==
    IF k = "bm25" THEN { BM25Retriever(DEFAULT_K1, DEFAULT_B) }
    ELSE IF k = "cosine" THEN { CosineRetriever }
    ELSE { HybridRetriever(DEFAULT_ALPHA, rrf_k) : rrf_k \in RrfKs }

Init ==
    /\ kind \in Kinds
    /\ retriever \in Constructed(kind)
    /\ last = NoCall
    /\ indexed = NeverIndexed
    /\ earlier = NoCall
    /\ threads = NoThreads
    /\ NoChunking

Indexed(documents) ==
    /\ indexed' = [called |-> TRUE, documents |-> documents, rebuilt |-> indexed.called]
    /\ last' = Call("index", << >>, 0, Return(<< >>))
    /\ earlier' = NoCall
    /\ UNCHANGED << kind, threads, chunkerVars >>

BM25Index(documents) ==
    /\ kind = "bm25"
    /\ retriever' = BM25Retriever_index(retriever, documents)
    /\ Indexed(documents)

CosineIndex(documents) ==
    /\ kind = "cosine"
    /\ retriever' = CosineRetriever_index(retriever, documents)
    /\ Indexed(documents)

HybridIndex(documents) ==
    /\ kind = "hybrid"
    /\ retriever' = HybridRetriever_index(retriever, documents)
    /\ Indexed(documents)

BM25Retrieve_truncating(query, top_k) ==
    /\ kind = "bm25"
    /\ last' = Call("retrieve", query, top_k, BM25Retriever_retrieve(retriever, query, top_k))
    /\ retriever' = [retriever EXCEPT !._docs = SliceTo(@, top_k)]
    /\ UNCHANGED << kind, threads, indexed, chunkerVars >>

BM25Retrieve(query, top_k) ==
    /\ kind = "bm25"
    /\ last' = Call("retrieve", query, top_k, BM25Retriever_retrieve(retriever, query, top_k))
    /\ UNCHANGED << kind, threads, retriever, indexed, chunkerVars >>

CosineRetrieve(query, top_k) ==
    /\ kind = "cosine"
    /\ last' = Call("retrieve", query, top_k, CosineRetriever_retrieve(retriever, query, top_k))
    /\ UNCHANGED << kind, threads, retriever, indexed, chunkerVars >>

HybridRetrieve(query, top_k) ==
    /\ kind = "hybrid"
    /\ LET frame == hybrid_frame(retriever, query, top_k)
       IN  last' = [Call("retrieve", query, top_k, frame.out)
                       EXCEPT !.fetch_k = frame.fetch_k,
                              !.bm25_results = frame.bm25_results,
                              !.cosine_results = frame.cosine_results]
    /\ UNCHANGED << kind, threads, retriever, indexed, chunkerVars >>

Next ==
    \/ \E documents \in Corpora : BM25Index(documents)
    \/ \E documents \in Corpora : CosineIndex(documents)
    \/ \E documents \in Corpora : HybridIndex(documents)
    \/ \E query \in Queries, top_k \in TopKs : BM25Retrieve(query, top_k) /\ UNCHANGED earlier
    \/ \E query \in Queries, top_k \in TopKs : CosineRetrieve(query, top_k) /\ UNCHANGED earlier
    \/ \E query \in Queries, top_k \in TopKs : HybridRetrieve(query, top_k) /\ UNCHANGED earlier

Spec == Init /\ [][Next]_vars

(***************************************************************************)
(* Properties of the three retrievers, checked under Spec.                 *)
(***************************************************************************)
Retrieved == last.op = "retrieve"

Answered == Retrieved /\ last.out.returned

results == last.out.results

IndexOf(k, self, documents) ==
    IF k = "bm25" THEN BM25Retriever_index(self, documents)
    ELSE IF k = "cosine" THEN CosineRetriever_index(self, documents)
    ELSE HybridRetriever_index(self, documents)

RetrieveOf(k, self, query, top_k) ==
    IF k = "bm25" THEN BM25Retriever_retrieve(self, query, top_k)
    ELSE IF k = "cosine" THEN CosineRetriever_retrieve(self, query, top_k)
    ELSE HybridRetriever_retrieve(self, query, top_k)

\* the retriever as its constructor left it, with the parameters it was given
AsConstructed ==
    IF kind = "bm25" THEN BM25Retriever(retriever.k1, retriever.b)
    ELSE IF kind = "cosine" THEN CosineRetriever
    ELSE HybridRetriever(retriever.alpha, retriever.rrf_k)

\* C1: retrieve() on a retriever that index() was never called on, or whose
\* most recent index() was given no documents, raises RuntimeError and returns
\* nothing; this holds for BM25Retriever, CosineRetriever and HybridRetriever.
C1_EmptyIndexRaises ==
    (Retrieved /\ indexed.documents = << >>)
        => (last.out.raised = "RuntimeError" /\ ~last.out.returned)

C1_Witness_NeverIndexed ==
    /\ Retrieved
    /\ ~indexed.called
    /\ kind = "hybrid"
    /\ last.out.raised = "RuntimeError"

C1_Witness_IndexedEmpty ==
    /\ Retrieved
    /\ indexed.called
    /\ indexed.rebuilt
    /\ indexed.documents = << >>
    /\ kind = "cosine"
    /\ last.out.raised = "RuntimeError"

\* C2: index() rebuilds the index wholesale: after a second index(), retrieve()
\* returns only documents of the second corpus, and exactly what a newly
\* constructed retriever indexed once with that corpus returns.
C2_IndexRebuildsWholesale ==
    (Retrieved /\ indexed.called) =>
        /\ last.out = RetrieveOf(kind, IndexOf(kind, AsConstructed, indexed.documents),
                                 last.query, last.top_k)
        /\ \A r \in DOMAIN results :
              \E i \in DOMAIN indexed.documents :
                  /\ indexed.documents[i].id = results[r].chunk_id
                  /\ indexed.documents[i].text = results[r].text

C2_Witness ==
    /\ Answered
    /\ indexed.rebuilt
    /\ indexed.documents = CORPUS_ONE
    /\ Len(results) = 1
    /\ results[1].chunk_id = "refund_policy"

\* C3: the results of one retrieve() call carry the ranks 1, 2, ..., len(results)
\* in list order, rank 1 first; the lists HybridRetriever takes from its two
\* sub-retrievers do so too.
C3_RanksCountFromOne ==
    Answered =>
        /\ \A r \in DOMAIN results : results[r].rank = r
        /\ \A r \in DOMAIN last.bm25_results : last.bm25_results[r].rank = r
        /\ \A r \in DOMAIN last.cosine_results : last.cosine_results[r].rank = r

C3_Witness ==
    /\ Answered
    /\ kind = "bm25"
    /\ Len(results) = MaxTopK
    /\ results[MaxTopK].rank = MaxTopK

\* C4: on a non-empty index BM25Retriever and CosineRetriever return exactly
\* min(top_k, N) results for top_k >= 0, whether or not the query matches a
\* document.
C4_ReturnsMinTopKN ==
    (Retrieved /\ kind \in { "bm25", "cosine" } /\ indexed.documents # << >>) =>
        /\ last.out.returned
        /\ Len(results) = Min(last.top_k, Len(indexed.documents))

C4_Witness ==
    /\ Answered
    /\ kind = "bm25"
    /\ last.query = QUERY_SYNONYM
    /\ indexed.documents = CORPUS_TWO
    /\ last.top_k = MaxTopK
    /\ Len(results) = 2

ChunkIds(rs) == { rs[r].chunk_id : r \in DOMAIN rs }

\* 1 / (rrf_k + rank) for the list that holds chunk_id, 0 for the list that
\* does not
Reciprocal(rs, chunk_id) ==
    IF chunk_id \in ChunkIds(rs)
    THEN << 1, retriever.rrf_k + (CHOOSE r \in DOMAIN rs : rs[r].chunk_id = chunk_id) >>
    ELSE << 0, 1 >>

Fused(chunk_id) ==
    RatAdd(Reciprocal(last.bm25_results, chunk_id),
           Reciprocal(last.cosine_results, chunk_id))

Candidates == ChunkIds(last.bm25_results) \cup ChunkIds(last.cosine_results)

\* C5: HybridRetriever.retrieve(query, top_k) asks each sub-retriever for
\* fetch_k = min(3 * top_k, 20) candidates, gives every candidate the sum of
\* 1 / (rrf_k + rank) over the lists that hold it, and returns the top_k
\* candidates by descending fused score, each tagged "hybrid_rrf".
C5_ReciprocalRankFusion ==
    (Answered /\ kind = "hybrid") =>
        /\ last.fetch_k = Min(3 * last.top_k, 20)
        /\ last.bm25_results =
              BM25Retriever_retrieve(retriever.bm25, last.query, last.fetch_k).results
        /\ last.cosine_results =
              CosineRetriever_retrieve(retriever.cosine, last.query, last.fetch_k).results
        /\ Len(results) = Min(last.top_k, Cardinality(Candidates))
        /\ \A r \in DOMAIN results :
              /\ results[r].retriever = "hybrid_rrf"
              /\ results[r].chunk_id \in Candidates
              /\ results[r].score = RatRound6(Fused(results[r].chunk_id))
        /\ \A r, s \in DOMAIN results :
              r < s => /\ results[r].chunk_id # results[s].chunk_id
                       /\ ~RatGreater(Fused(results[s].chunk_id), Fused(results[r].chunk_id))
        /\ \A chunk_id \in Candidates \ ChunkIds(results) :
              \A r \in DOMAIN results :
                  ~RatGreater(Fused(chunk_id), Fused(results[r].chunk_id))

C5_Witness ==
    /\ Answered
    /\ kind = "hybrid"
    /\ last.top_k = CapTopK
    /\ last.fetch_k = 20
    /\ Len(last.bm25_results) = 20
    /\ Len(results) = CapTopK
    /\ ChunkIds(last.bm25_results) # ChunkIds(last.cosine_results)
    /\ \E r \in DOMAIN results :
          results[r].chunk_id \notin ChunkIds(last.cosine_results)
    /\ \E r \in DOMAIN results :
          /\ results[r].chunk_id \in ChunkIds(last.cosine_results)
          /\ results[r].chunk_id \in ChunkIds(last.bm25_results)

\* C6: with unique chunk ids, rrf_k >= 0 and top_k >= 1, a document ranked
\* first by both sub-retrievers is ranked first by HybridRetriever.
C6_AgreedFirstStaysFirst ==
    (/\ Answered
     /\ kind = "hybrid"
     /\ last.top_k >= 1
     /\ last.bm25_results[1].chunk_id = last.cosine_results[1].chunk_id)
        => /\ results # << >>
           /\ results[1].chunk_id = last.bm25_results[1].chunk_id
           /\ results[1].rank = 1

C6_Witness ==
    /\ Answered
    /\ kind = "hybrid"
    /\ retriever.rrf_k = 0
    /\ last.top_k >= 2
    /\ Len(results) >= 2
    /\ last.bm25_results[1].chunk_id = last.cosine_results[1].chunk_id
    /\ \E r \in DOMAIN last.bm25_results :
          last.bm25_results[r].chunk_id # last.cosine_results[r].chunk_id
    /\ results[1].chunk_id = last.cosine_results[1].chunk_id

Tokens(text) == Range(_tokenize(text))

DocumentOf(chunk_id) ==
    CHOOSE d \in Range(indexed.documents) : d.id = chunk_id

SharesToken(chunk_id) == Tokens(last.query) \cap Tokens(DocumentOf(chunk_id).text) # { }

\* C8: BM25Retriever scores a document that holds none of the query's tokens
\* exactly 0.0, so a query sharing no token with any document returns only
\* scores of 0.0.
C8_NoSharedTokenScoresZero ==
    (Answered /\ kind = "bm25") =>
        \A r \in DOMAIN results :
            ~SharesToken(results[r].chunk_id) => results[r].score = 0

C8_Witness ==
    /\ Answered
    /\ kind = "bm25"
    /\ indexed.documents = CORPUS_THREE
    /\ Tokens(last.query) # { }
    /\ Len(results) = 3
    /\ \A r \in DOMAIN results :
          ~SharesToken(results[r].chunk_id) /\ results[r].score = 0

(***************************************************************************)
(* Repeated retrieve() calls on one BM25Retriever.  At a retrieve() call   *)
(* the history variable earlier either stays or takes the call before.     *)
(***************************************************************************)
DetInit ==
    /\ kind = "bm25"
    /\ retriever = BM25Retriever(DEFAULT_K1, DEFAULT_B)
    /\ last = NoCall
    /\ indexed = NeverIndexed
    /\ earlier = NoCall
    /\ threads = NoThreads
    /\ NoChunking

Remember ==
    \/ earlier' = earlier
    \/ last.op = "retrieve" /\ earlier' = last

DetNext ==
    \/ \E documents \in Corpora : BM25Index(documents)
    \/ \E query \in Queries, top_k \in TopKs : BM25Retrieve(query, top_k) /\ Remember

DetSpec == DetInit /\ [][DetNext]_vars

BigN == 250

LongLen == 160

Filler(n) == [i \in 1..(3 * n) |-> IF i % 3 = 1 THEN " " ELSE "z"]

TEXT_LONG == TEXT_RETURN \o Filler(LongLen - 1)

CORPUS_BIG ==
    [i \in 1..BigN |-> Doc("b" \o ToString(i), TEXT_RETURN)] \o << Doc("long", TEXT_LONG) >>

BigCorpora == { CORPUS_EMPTY, CORPUS_ONE, CORPUS_TWO, CORPUS_THREE, CORPUS_BIG }

\* top_k: nothing, the best document, the whole of the largest corpus
BigTopKs == { 0, 1, BigN + 1 }

BigNext ==
    \/ \E documents \in BigCorpora : BM25Index(documents)
    \/ \E query \in Queries, top_k \in BigTopKs :
          BM25Retrieve(query, top_k) /\ UNCHANGED earlier

BigSpec == DetInit /\ [][BigNext]_vars

IndexOfDoc(chunk_id) ==
    CHOOSE i \in DOMAIN indexed.documents : indexed.documents[i].id = chunk_id

\* the documents that share a token with the query
Matching(query_terms) ==
    { i \in DOMAIN indexed.documents :
         Range(query_terms) \cap DOMAIN At(retriever._tf, i) # { } }

\* C9 (as stated, for top_k >= N so that every document is returned): every
\* indexed document sharing a token with the query is returned with a score
\* strictly greater than 0.0.
C9_MatchingScoresPositive ==
    (Answered /\ kind = "bm25" /\ last.top_k >= Len(indexed.documents)) =>
        \A i \in Matching(_tokenize(last.query)) :
            \E r \in DOMAIN results :
                /\ results[r].chunk_id = indexed.documents[i].id
                /\ results[r].score > 0

\* the results up to rank r are the documents that share a token with the query
MatchingFirst(matching, r) ==
    r > 1 => (IndexOfDoc(results[r].chunk_id) \in matching
                 => IndexOfDoc(results[r - 1].chunk_id) \in matching)

\* C9 (amended): with the default k1 and b every indexed document sharing a
\* token with the query has a BM25 score above 0.0 before rounding and ranks
\* ahead of every document sharing none; it is returned when top_k >= N, and a
\* returned document carries round(score, 4), which is never negative and may
\* be 0.0.  The single refund-policy document queried with "How long do I have
\* to return an item?" is returned at rank 1 with a score above 0.0.
C9_MatchingScoresPositiveBeforeRounding ==
    (Answered /\ kind = "bm25") =>
        LET query_terms == _tokenize(last.query)
            matching == Matching(query_terms)
        IN  /\ \A i \in matching :
                  /\ bm25_score(retriever, i, query_terms) > 0
                  /\ last.top_k >= Len(indexed.documents)
                        => indexed.documents[i].id \in ChunkIds(results)
            /\ \A r \in DOMAIN results :
                  /\ results[r].score =
                        FRound(bm25_score(retriever, IndexOfDoc(results[r].chunk_id),
                                          query_terms), 4)
                  /\ results[r].score >= 0
                  /\ MatchingFirst(matching, r)
            /\ (/\ indexed.documents = CORPUS_ONE
                /\ last.query = QUERY_RETURN_WINDOW
                /\ last.top_k >= 1)
                  => /\ Len(results) = 1
                     /\ results[1].chunk_id = "refund_policy"
                     /\ results[1].rank = 1
                     /\ results[1].score > 0

C9_Witness ==
    /\ Answered
    /\ kind = "bm25"
    /\ indexed.documents = CORPUS_BIG
    /\ last.query = QUERY_RETURN_WINDOW
    /\ last.top_k = BigN + 1
    /\ Matching(_tokenize(last.query)) = DOMAIN indexed.documents
    /\ Len(results) = BigN + 1
    /\ results[BigN + 1].chunk_id = "long"
    /\ results[BigN + 1].score = 0
    /\ results[1].score > 0

(***************************************************************************)
(* Python str and list operations used by the Chunker.                     *)
(***************************************************************************)
SetMin(S) == CHOOSE x \in S : \A y \in S : x <= y

SetMax(S) == CHOOSE x \in S : \A y \in S : x >= y

\* str.strip()
strip(s) ==
    LET inked == { i \in DOMAIN s : ~IsSpace(At(s, i)) }
    IN  IF inked = { } THEN << >> ELSE SubSeq(s, SetMin(inked), SetMax(inked))

\* a Python index clamped into 0..n, a negative one counting from the end
slice_index(i, n) == IF i < 0 THEN Max(i + n, 0) ELSE Min(i, n)

\* s[start:end]
slice(s, start, end) ==
    SubSeq(s, slice_index(start, Len(s)) + 1, slice_index(end, Len(s)))

\* str.find(t): the 0-based position of the first occurrence, -1 without one
find(s, t) ==
    LET hits == { i \in 0..(Len(s) - Len(t)) : SubSeq(s, i + 1, i + Len(t)) = t }
    IN  IF hits = { } THEN -1 ELSE SetMin(hits)

\* the pieces of s between the separators seps, <<first, last>> positions in
\* order: one piece more than there are separators
split_at(s, seps) ==
    [k \in 1..(Len(seps) + 1) |->
        SubSeq(s,
               IF k = 1 THEN 1 ELSE At(At(seps, k - 1), 2) + 1,
               IF k = Len(seps) + 1 THEN Len(s) ELSE At(At(seps, k), 1) - 1)]

\* str.split(c) for a separator c of one character
split(s, c) ==
    LET IsSeparator(i) == At(s, i) = c
        positions == SelectSeq([i \in DOMAIN s |-> i], IsSeparator)
    IN  split_at(s, [k \in DOMAIN positions |-> << At(positions, k), At(positions, k) >>])

\* sep.join(parts)
RECURSIVE join(_, _)
join(sep, parts) ==
    IF parts = << >> THEN << >>
    ELSE IF Len(parts) = 1 THEN Head(parts)
    ELSE Head(parts) \o sep \o join(sep, Tail(parts))

\* the lists of a list, one after the other
RECURSIVE Concat(_)
Concat(lists) == IF lists = << >> THEN << >> ELSE Head(lists) \o Concat(Tail(lists))

IsNotBlank(s) == strip(s) # << >>

SPACE == << " " >>

NEWLINE == << "\n" >>

(***************************************************************************)
(* Chunk and Chunker.  A call that neither returns nor raises is Diverge.  *)
(***************************************************************************)
Chunk(text, index, start_char, end_char, strategy) ==
    [text |-> text, index |-> index, start_char |-> start_char, end_char |-> end_char,
     strategy |-> strategy, metadata |-> << >>]

Diverge == [raised |-> "none", returned |-> FALSE, results |-> << >>]

STRATEGIES == << "fixed", "sentence", "recursive", "semantic" >>

DEFAULT_CHUNK_SIZE == 512

DEFAULT_OVERLAP == 64

DEFAULT_MAX_SENTENCES == 5

\* similarity_threshold = 0.85, as a fraction
DEFAULT_SIMILARITY_THRESHOLD == << 17, 20 >>

Chunker_unvalidated(strategy, chunk_size, overlap, max_sentences, similarity_threshold) ==
    [status |-> "constructed", strategy |-> strategy, chunk_size |-> chunk_size,
     overlap |-> overlap, max_sentences |-> max_sentences,
     similarity_threshold |-> similarity_threshold]

\* Chunker.__init__
Chunker(strategy, chunk_size, overlap, max_sentences, similarity_threshold) ==
    IF strategy \notin Range(STRATEGIES)
    THEN [NoChunker EXCEPT !.status = "ValueError"]
    ELSE [status |-> "constructed", strategy |-> strategy, chunk_size |-> chunk_size,
          overlap |-> overlap, max_sentences |-> max_sentences,
          similarity_threshold |-> similarity_threshold]

RECURSIVE fixed_loop_skipping(_, _, _, _)
fixed_loop_skipping(self, text, start, chunks) ==
    IF ~(start < Len(text)) THEN chunks
    ELSE LET end == Min(start + self.chunk_size, Len(text))
         IN  fixed_loop_skipping(self, text, start + self.chunk_size - self.overlap + 1,
                                 Append(chunks, slice(text, start, end)))

\* the while loop of _fixed, from start on
RECURSIVE fixed_loop(_, _, _, _)
fixed_loop(self, text, start, chunks) ==
    IF ~(start < Len(text)) THEN chunks
    ELSE LET end == Min(start + self.chunk_size, Len(text))
         IN  fixed_loop(self, text, start + self.chunk_size - self.overlap,
                        Append(chunks, slice(text, start, end)))

\* Chunker._fixed; with chunk_size - overlap <= 0 start never passes len(text)
\* and the loop does not end
Chunker_fixed(self, text) ==
    IF 0 < Len(text) /\ self.chunk_size - self.overlap <= 0
    THEN Diverge
    ELSE Return(fixed_loop(self, text, 0, << >>))

\* the characters of [A-Z0-9\-]
SentenceStart == UpperLetters \cup digits \cup { "-" }

\* the characters of [.!?]
SentenceEnd == { ".", "!", "?" }

\* Chunker._split_sentences: re.split on (?<=[.!?])\s+(?=[A-Z0-9\-]), a whole
\* run of whitespace with a [.!?] before it and a [A-Z0-9\-] after it, then
\* each piece split on "\n", the parts stripped and the empty ones left out
Chunker_split_sentences(text) ==
    LET IsBoundary(run) ==
            /\ At(run, 1) > 1
            /\ At(text, At(run, 1) - 1) \in SentenceEnd
            /\ At(run, 2) < Len(text)
            /\ At(text, At(run, 2) + 1) \in SentenceStart
        sentences == split_at(text, SelectSeq(Runs(text, Whitespace, 1, Len(text)), IsBoundary))
        parts == Concat([k \in DOMAIN sentences |-> split(At(sentences, k), "\n")])
    IN  SelectSeq([k \in DOMAIN parts |-> strip(At(parts, k))], IsNotBlank)

RECURSIVE sentence_loop_without_overlap(_, _, _, _, _)
sentence_loop_without_overlap(self, sentences, k, chunks, buffer) ==
    IF k > Len(sentences)
    THEN (IF buffer # << >> THEN Append(chunks, join(SPACE, buffer)) ELSE chunks)
    ELSE LET appended == Append(buffer, At(sentences, k))
         IN  IF Len(appended) >= self.max_sentences
             THEN sentence_loop_without_overlap(self, sentences, k + 1,
                                                Append(chunks, join(SPACE, appended)), << >>)
             ELSE sentence_loop_without_overlap(self, sentences, k + 1, chunks, appended)

\* the for loop of _sentence from sentence k on, and the final flush
RECURSIVE sentence_loop(_, _, _, _, _)
sentence_loop(self, sentences, k, chunks, buffer) ==
    IF k > Len(sentences)
    THEN (IF buffer # << >> THEN Append(chunks, join(SPACE, buffer)) ELSE chunks)
    ELSE LET appended == Append(buffer, At(sentences, k))
         IN  IF Len(appended) >= self.max_sentences
             THEN sentence_loop(self, sentences, k + 1,
                                Append(chunks, join(SPACE, appended)),
                                << At(appended, Len(appended)) >>)
             ELSE sentence_loop(self, sentences, k + 1, chunks, appended)

\* Chunker._sentence
Chunker_sentence(self, text) ==
    Return(sentence_loop(self, Chunker_split_sentences(text), 1, << >>, << >>))

\* re.split(r"\n\n+", text)
split_paragraphs(text) ==
    LET IsBreak(run) == At(run, 2) - At(run, 1) >= 1
    IN  split_at(text, SelectSeq(Runs(text, { "\n" }, 1, Len(text)), IsBreak))

\* Chunker._recursive and Chunker._merge_splits (the for loop from part k on).
\* A text longer than max_size with nothing left to split on comes back from
\* the last resort as its own single part, and _merge_splits recurses on it
\* with the same arguments without end: RecursionError.
RECURSIVE Chunker_recursive(_, _)
RECURSIVE merge_loop_dropping_carry(_, _, _, _, _, _)
merge_loop_dropping_carry(parts, max_size, separator, k, chunks, current) ==
    IF k > Len(parts)
    THEN Return(IF current # << >> THEN Append(chunks, current) ELSE chunks)
    ELSE LET part == At(parts, k)
             candidate == IF current # << >> THEN strip(current \o separator \o part)
                          ELSE part
             flushed == IF current # << >> THEN Append(chunks, current) ELSE chunks
         IN  IF Len(candidate) <= max_size
             THEN merge_loop_dropping_carry(parts, max_size, separator, k + 1, chunks,
                                            candidate)
             ELSE IF Len(part) > max_size
             THEN LET sub == Chunker_recursive(part, max_size)
                  IN  IF ~sub.returned THEN sub
                      ELSE merge_loop_dropping_carry(parts, max_size, separator, k + 1,
                                                     flushed \o SliceTo(sub.results, -1),
                                                     << >>)
             ELSE merge_loop_dropping_carry(parts, max_size, separator, k + 1, flushed, part)

RECURSIVE merge_loop(_, _, _, _, _, _)
merge_loop(parts, max_size, separator, k, chunks, current) ==
    IF k > Len(parts)
    THEN Return(IF current # << >> THEN Append(chunks, current) ELSE chunks)
    ELSE LET part == At(parts, k)
             candidate == IF current # << >> THEN strip(current \o separator \o part)
                          ELSE part
             flushed == IF current # << >> THEN Append(chunks, current) ELSE chunks
         IN  IF Len(candidate) <= max_size
             THEN merge_loop(parts, max_size, separator, k + 1, chunks, candidate)
             ELSE IF Len(part) > max_size
             THEN LET sub == Chunker_recursive(part, max_size)
                  IN  IF ~sub.returned THEN sub
                      ELSE merge_loop(parts, max_size, separator, k + 1,
                                      flushed \o SliceTo(sub.results, -1),
                                      IF sub.results # << >>
                                      THEN At(sub.results, Len(sub.results))
                                      ELSE << >>)
             ELSE merge_loop(parts, max_size, separator, k + 1, flushed, part)

Chunker_merge_splits(parts, max_size, separator) ==
    merge_loop(parts, max_size, separator, 1, << >>, << >>)

Chunker_recursive_by_words(text, max_size) ==
    IF Len(text) <= max_size THEN Return(<< text >>)
    ELSE IF Len(split(text, " ")) = 1
    THEN Raise("RecursionError")
    ELSE Chunker_merge_splits(split(text, " "), max_size, SPACE)

Chunker_recursive(text, max_size) ==
    IF Len(text) <= max_size THEN Return(<< text >>)
    ELSE IF Len(split_paragraphs(text)) > 1
    THEN Chunker_merge_splits(split_paragraphs(text), max_size, << "\n", "\n" >>)
    ELSE IF Len(split(text, "\n")) > 1
    THEN Chunker_merge_splits(split(text, "\n"), max_size, NEWLINE)
    ELSE IF Len(Chunker_split_sentences(text)) > 1
    THEN Chunker_merge_splits(Chunker_split_sentences(text), max_size, SPACE)
    ELSE IF Len(split(text, " ")) = 1
    THEN Raise("RecursionError")
    ELSE Chunker_merge_splits(split(text, " "), max_size, SPACE)

\* the stopword set of _tfidf_vector
tfidf_stopwords ==
    { << "t", "h", "e" >>, << "a", "n", "d" >>, << "f", "o", "r" >>,
      << "t", "h", "a", "t" >>, << "t", "h", "i", "s" >>, << "w", "i", "t", "h" >>,
      << "a", "r", "e" >>, << "w", "a", "s" >>, << "n", "o", "t" >>,
      << "h", "a", "v", "e" >>, << "h", "a", "s" >>, << "h", "a", "d" >>,
      << "i", "t", "s" >>, << "m", "a", "y" >>, << "p", "e", "r" >>,
      << "a", "n", "y" >> }

IsContentWord(run) == IsLowerWord(run, 3) /\ run \notin tfidf_stopwords

\* Chunker._tfidf_vector: the weight of w is tf[w] / total
Chunker_tfidf_vector(text) ==
    LET tf == term_counts(SelectSeq(WordRuns(lower(text)), IsContentWord))
    IN  [tf |-> tf, total |-> IF dict_sum(tf) = 0 THEN 1 ELSE dict_sum(tf)]

\* sum(v * v for v in a.values()), in units of 1 / total^2
SquareSum(a) == dict_sum([w \in DOMAIN a.tf |-> At(a.tf, w) * At(a.tf, w)])

\* Chunker._cosine(a, b) >= threshold, threshold a fraction <<num, den>>.  The
\* cosine is 0.0 when a vector is empty (norm 0.0, divisor 1e-9); else it is
\* dot / (norm_a * norm_b), in which the two totals cancel, and the comparison
\* is taken on the squares.
cosine_at_least(a, b, threshold) ==
    LET shared == DOMAIN a.tf \cap DOMAIN b.tf
        dot == dict_sum([w \in shared |-> At(a.tf, w) * At(b.tf, w)])
        num == At(threshold, 1)
        den == At(threshold, 2)
    IN  IF num <= 0 THEN TRUE
        ELSE IF DOMAIN a.tf = { } \/ DOMAIN b.tf = { } THEN FALSE
        ELSE dot * dot * den * den >= num * num * SquareSum(a) * SquareSum(b)

\* a loop that compares the next sentence with the accumulated buffer
RECURSIVE semantic_loop_against_buffer(_, _, _, _, _, _)
semantic_loop_against_buffer(self, sentences, vectors, i, chunks, buffer) ==
    IF i >= Len(sentences)
    THEN (IF buffer # << >> THEN Append(chunks, join(SPACE, buffer)) ELSE chunks)
    ELSE IF cosine_at_least(Chunker_tfidf_vector(join(SPACE, buffer)), At(vectors, i + 1),
                            self.similarity_threshold)
    THEN semantic_loop_against_buffer(self, sentences, vectors, i + 1, chunks,
                                      Append(buffer, At(sentences, i + 1)))
    ELSE semantic_loop_against_buffer(self, sentences, vectors, i + 1,
                                      Append(chunks, join(SPACE, buffer)),
                                      << At(sentences, i + 1) >>)

\* the for loop of _semantic from sentence i (0-based) on, and the final flush
RECURSIVE semantic_loop(_, _, _, _, _, _)
semantic_loop(self, sentences, vectors, i, chunks, buffer) ==
    IF i >= Len(sentences)
    THEN (IF buffer # << >> THEN Append(chunks, join(SPACE, buffer)) ELSE chunks)
    ELSE IF cosine_at_least(At(vectors, i), At(vectors, i + 1), self.similarity_threshold)
    THEN semantic_loop(self, sentences, vectors, i + 1, chunks,
                       Append(buffer, At(sentences, i + 1)))
    ELSE semantic_loop(self, sentences, vectors, i + 1,
                       Append(chunks, join(SPACE, buffer)), << At(sentences, i + 1) >>)

\* Chunker._semantic
Chunker_semantic(self, text) ==
    LET sentences == Chunker_split_sentences(text)
        vectors == [k \in DOMAIN sentences |-> Chunker_tfidf_vector(At(sentences, k))]
    IN  IF Len(sentences) <= 1 THEN Return(sentences)
        ELSE Return(semantic_loop(self, sentences, vectors, 1, << >>, << Head(sentences) >>))

\* the list comprehension of chunk(): index is the position in raw, counted
\* before the blank pieces are left out
chunks_of(self, text, raw) ==
    LET IsKept(i) == IsNotBlank(At(raw, i))
        kept == SelectSeq([i \in DOMAIN raw |-> i], IsKept)
    IN  [k \in DOMAIN kept |->
            LET t == At(raw, At(kept, k))
            IN  Chunk(t, At(kept, k) - 1, find(text, t), find(text, t) + Len(t),
                      self.strategy)]

\* Chunker.chunk
Chunker_chunk(self, given) ==
    LET text == strip(given)
        raw == IF self.strategy = "fixed" THEN Chunker_fixed(self, text)
               ELSE IF self.strategy = "sentence" THEN Chunker_sentence(self, text)
               ELSE IF self.strategy = "recursive"
               THEN Chunker_recursive(text, self.chunk_size)
               ELSE IF self.strategy = "semantic" THEN Chunker_semantic(self, text)
               ELSE Raise("ValueError")
    IN  IF text = << >> THEN Return(<< >>)
        ELSE IF ~raw.returned THEN raw
        ELSE Return(chunks_of(self, text, raw.results))

(***************************************************************************)
(* A run constructs one Chunker and then calls chunk() on it.              *)
(***************************************************************************)
TEXT_GAPPED ==
    << "a", " ", " ", " ", " ", "b" >>

TEXT_SENTENCES ==
    << "H", "i", ".", " ", "G", "o", " ", "n", "o", "w", "!", " ", "O", "k", "?", " ", "Y",
       "e", "s", "." >>

TEXT_PARAGRAPHS ==
    << "O", "n", "e", " ", "t", "w", "o", ".", "\n", "\n", "T", "h", "r", "e", "e", " ", "f",
       "o", "u", "r", ".", "\n", "F", "i", "v", "e" >>

TEXT_BLANK ==
    << " ", " ", "\n", " " >>

TEXT_WORDS ==
    << "a", "l", "p", "h", "a", " ", "b", "e", "t", "a", " ", "g", "a", "m", "m", "a", " ",
       "d", "e", "l", "t", "a" >>

TEXT_TABBED ==
    << "a", "b", " ", "	", " ", "c", "d" >>

TEXT_TOPICS ==
    << "C", "a", "t", "s", " ", "p", "u", "r", "r", ".", " ", "C", "a", "t", "s", " ", "p",
       "u", "r", "r", " ", "l", "o", "u", "d", "l", "y", ".", " ", "D", "o", "g", "s", " ",
       "b", "a", "r", "k", "." >>

TEXT_PADDED ==
    << " ", "P", "a", "d", "d", "e", "d", " ", "t", "e", "x", "t", ".", " " >>

\* the third sentence is close to the second and far from the first two together
TEXT_DRIFT ==
    << "C", "a", "t", "s", " ", "p", "u", "r", "r", ".", " ", "C", "a", "t", "s", " ", "p", "u", "r", "r", " ", "l", "o", "u", "d", "l", "y", ".", " ", "L", "o", "u", "d", "l", "y", " ", "l", "o", "u", "d", "l", "y", "." >>

Texts ==
    { << >>, TEXT_GAPPED, TEXT_SENTENCES, TEXT_PARAGRAPHS, TEXT_BLANK, TEXT_WORDS,
      TEXT_TABBED, TEXT_TOPICS, TEXT_PADDED, TEXT_DRIFT }

MaxChunkSize == 5

MaxOverlap == 2

MaxSentences == 3

ChunkSizes == (1..MaxChunkSize) \cup { DEFAULT_CHUNK_SIZE }

Overlaps == 0..MaxOverlap

SentenceCounts == (1..MaxSentences) \cup { DEFAULT_MAX_SENTENCES }

Thresholds == { DEFAULT_SIMILARITY_THRESHOLD, << 1, 2 >>, << 0, 1 >> }

\* the constructor calls of the model: the arguments a strategy does not read
\* keep their defaults
Constructions ==
    { << "fixed", chunk_size, overlap, DEFAULT_MAX_SENTENCES, DEFAULT_SIMILARITY_THRESHOLD >> :
         chunk_size \in 1..MaxChunkSize, overlap \in Overlaps }
    \cup { << "recursive", chunk_size, DEFAULT_OVERLAP, DEFAULT_MAX_SENTENCES,
              DEFAULT_SIMILARITY_THRESHOLD >> : chunk_size \in ChunkSizes }
    \cup { << "sentence", DEFAULT_CHUNK_SIZE, DEFAULT_OVERLAP, max_sentences,
              DEFAULT_SIMILARITY_THRESHOLD >> : max_sentences \in SentenceCounts }
    \cup { << "semantic", DEFAULT_CHUNK_SIZE, DEFAULT_OVERLAP, DEFAULT_MAX_SENTENCES,
              similarity_threshold >> : similarity_threshold \in Thresholds }
    \cup { << "paragraph", DEFAULT_CHUNK_SIZE, DEFAULT_OVERLAP, DEFAULT_MAX_SENTENCES,
              DEFAULT_SIMILARITY_THRESHOLD >> }

ChunkInit ==
    /\ kind = "none"
    /\ retriever = << >>
    /\ last = NoCall
    /\ indexed = NeverIndexed
    /\ earlier = NoCall
    /\ threads = NoThreads
    /\ NoChunking

Construct(strategy, chunk_size, overlap, max_sentences, similarity_threshold) ==
    /\ chunker.status = "none"
    /\ chunker' = Chunker(strategy, chunk_size, overlap, max_sentences, similarity_threshold)
    /\ UNCHANGED << chunked, before, retrieverVars >>

ChunkText(text) ==
    /\ chunker.status = "constructed"
    /\ chunked' = [op |-> "chunk", self |-> chunker, text |-> text,
                   out |-> Chunker_chunk(chunker, text)]
    /\ before' = chunked
    /\ UNCHANGED << chunker, retrieverVars >>

ChunkNext ==
    \/ \E c \in Constructions : Construct(c[1], c[2], c[3], c[4], c[5])
    \/ \E text \in Texts : ChunkText(text)

ChunkSpec == ChunkInit /\ [][ChunkNext]_vars

chunks == chunked.out.results

\* C10: the chunks one chunk() call returns carry the index values 0, 1, ...,
\* N-1 in order, N the number of chunks returned, for every strategy,
\* configuration and text: the fragments dropped as blank leave no gap.
C10_IndexIsDense ==
    (chunked.op = "chunk" /\ chunked.out.returned) =>
        \A k \in DOMAIN chunks : chunks[k].index = k - 1


(***************************************************************************)
(* Properties of chunk() calls.                                            *)
(***************************************************************************)
Chunked == chunked.op = "chunk"

ChunkedBy(strategy) == Chunked /\ chunked.self.strategy = strategy

\* the whitespace-free units of a text
Words(text) ==
    LET runs == Runs(text, Range(text) \ Whitespace, 1, Len(text))
    IN  { SubSeq(text, At(run, 1), At(run, 2)) : run \in Range(runs) }

OversizedWords(text, size) == { w \in Words(text) : Len(w) > size }

\* C11: with the recursive strategy every chunk chunk() returns is at most
\* chunk_size long, except that a word longer than chunk_size is returned
\* unsplit as a chunk of its own.
C11_OversizedWordPassesUnsplit ==
    ChunkedBy("recursive") =>
        LET oversized == OversizedWords(chunked.text, chunked.self.chunk_size)
        IN  /\ chunked.out.returned
            /\ \A k \in DOMAIN chunks :
                  Len(chunks[k].text) <= chunked.self.chunk_size \/ chunks[k].text \in oversized
            /\ \A w \in oversized : \E k \in DOMAIN chunks : chunks[k].text = w

\* C12: chunk() with the recursive strategy returns a chunk list and raises
\* nothing, for every text and chunk_size >= 1.
C12_RecursiveReturns ==
    ChunkedBy("recursive") =>
        /\ chunked.out.returned
        /\ chunked.out.raised = "none"

\* C13: chunk() with the fixed strategy terminates for every non-empty text,
\* chunk_size >= 1 and overlap >= 0, overlap >= chunk_size included.
C13_FixedTerminates ==
    ChunkedBy("fixed") => chunked.out.returned

\* the texts of the chunks, one after the other in index order
Whole == Concat([k \in DOMAIN chunks |-> chunks[k].text])

IsInk(c) == ~IsSpace(c)

\* a text without its whitespace
Ink(text) == SelectSeq(text, IsInk)

\* the lengths of the runs of whitespace of a text
WhitespaceRuns(text) ==
    { At(run, 2) - At(run, 1) + 1 : run \in Range(Runs(text, Whitespace, 1, Len(text))) }

FixedWithoutOverlap == ChunkedBy("fixed") /\ chunked.self.overlap = 0 /\ chunked.out.returned

\* C14: with the fixed strategy and overlap = 0 the chunk texts, concatenated
\* in index order, reproduce the trimmed input: nothing but whitespace is
\* lost, and nothing at all when no run of whitespace is as long as chunk_size.
C14_FixedCoversText ==
    FixedWithoutOverlap =>
        /\ Ink(Whole) = Ink(chunked.text)
        /\ (\A n \in WhitespaceRuns(strip(chunked.text)) : n < chunked.self.chunk_size)
              => Whole = strip(chunked.text)

C14_Witness ==
    /\ FixedWithoutOverlap
    /\ strip(chunked.text) # chunked.text
    /\ Len(chunks) >= 3
    /\ Whole = strip(chunked.text)

\* the sentences of the text given to the last chunk() call
Sentences == Chunker_split_sentences(strip(chunked.text))

\* chunk k is the sentences from..to of the text, joined by spaces
IsSentences(k, from, to) ==
    chunks[k].text = join(SPACE, SubSeq(Sentences, from, to))

\* C15: with the sentence strategy and max_sentences >= 2 (3 in particular),
\* every chunk after the first begins with exactly the last sentence of the
\* chunk before it.
C15_SentenceOverlapCarriesForward ==
    (ChunkedBy("sentence") /\ chunked.self.max_sentences >= 2 /\ chunked.out.returned) =>
        \A k \in DOMAIN chunks : k > 1 =>
            \E from, carried, to \in DOMAIN Sentences :
                /\ from <= carried
                /\ carried <= to
                /\ IsSentences(k - 1, from, carried)
                /\ IsSentences(k, carried, to)

C15_Witness ==
    /\ ChunkedBy("sentence")
    /\ chunked.self.max_sentences = 3
    /\ chunked.out.returned
    /\ Len(chunks) >= 2
    /\ Len(Sentences) >= 4

\* C17: the constructor fails with ValueError for a strategy outside fixed,
\* sentence, recursive and semantic, so every Chunker constructed has one of
\* the four, and no chunk() call reaches the "Unknown strategy" ValueError.
C17_UnknownStrategyFailsAtConstruction ==
    /\ chunker.status \in { "none", "constructed", "ValueError" }
    /\ chunker.status = "constructed" => chunker.strategy \in Range(STRATEGIES)
    /\ Chunked =>
          /\ chunked.self.status = "constructed"
          /\ chunked.self.strategy \in Range(STRATEGIES)
          /\ chunked.out.raised # "ValueError"

C17_Witness ==
    /\ chunker.status = "ValueError"
    /\ ~Chunked

\* the trimmed text of the last chunk() call
Trimmed == strip(chunked.text)

\* C21: start_char and end_char of every chunk are offsets into the trimmed
\* text: 0 <= start_char <= end_char <= len(text), text[start_char:end_char]
\* is the text of the chunk, and start_char is where that text first occurs.
C21_OffsetsLocateTheChunk ==
    (Chunked /\ chunked.out.returned) =>
        \A k \in DOMAIN chunks :
            /\ 0 <= chunks[k].start_char
            /\ chunks[k].start_char <= chunks[k].end_char
            /\ chunks[k].end_char <= Len(Trimmed)
            /\ SubSeq(Trimmed, chunks[k].start_char + 1, chunks[k].end_char) = chunks[k].text
            /\ \A j \in 0..(chunks[k].start_char - 1) :
                  SubSeq(Trimmed, j + 1, j + Len(chunks[k].text)) # chunks[k].text

\* the sentences after which the semantic strategy ends a chunk: sentence i
\* when its own vector and that of sentence i + 1 have a cosine below the
\* threshold, and the last sentence
Boundaries ==
    { i \in DOMAIN Sentences :
        \/ i = Len(Sentences)
        \/ ~cosine_at_least(Chunker_tfidf_vector(Sentences[i]),
                            Chunker_tfidf_vector(Sentences[i + 1]),
                            chunked.self.similarity_threshold) }

\* the boundary that ends chunk k: the k-th smallest
BoundaryOf(k) ==
    CHOOSE i \in Boundaries : Cardinality({ j \in Boundaries : j <= i }) = k

\* C27: the chunks of the semantic strategy partition the sentences in order,
\* and a chunk ends after sentence i exactly when the cosine of the vectors of
\* sentence i and sentence i + 1 is below similarity_threshold; the buffer
\* takes no part in the comparison.
C27_SemanticSplitsBetweenUnlikeNeighbours ==
    (ChunkedBy("semantic") /\ chunked.out.returned) =>
        /\ Len(chunks) = Cardinality(Boundaries)
        /\ \A k \in DOMAIN chunks :
              IsSentences(k, IF k = 1 THEN 1 ELSE BoundaryOf(k - 1) + 1, BoundaryOf(k))

\* three sentences, the third like the second and unlike the first two
\* together, came out as one chunk
C27_Witness ==
    /\ ChunkedBy("semantic")
    /\ chunked.out.returned
    /\ chunked.text = TEXT_DRIFT
    /\ chunked.self.similarity_threshold = << 1, 2 >>
    /\ Len(Sentences) = 3
    /\ Len(chunks) = 1

\* text.split(): the whitespace-separated words of a text, in order
WordList(text) ==
    LET runs == Runs(text, Range(text) \ Whitespace, 1, Len(text))
    IN  [k \in DOMAIN runs |-> SubSeq(text, At(At(runs, k), 1), At(At(runs, k), 2))]

\* the word lists of the first n chunks, concatenated in chunk order
RECURSIVE WordsOfChunks(_)
WordsOfChunks(n) ==
    IF n = 0 THEN << >> ELSE WordsOfChunks(n - 1) \o WordList(chunks[n].text)

\* C28: whenever chunk() returns under the recursive strategy, the words of
\* the chunks, taken in chunk order, are exactly the words of the text: none
\* is lost, duplicated or moved, also where the last sub-chunk of an oversized
\* part is carried forward as the running buffer.
C28_RecursiveKeepsEveryWord ==
    (ChunkedBy("recursive") /\ chunked.out.returned) =>
        WordsOfChunks(Len(chunks)) = WordList(chunked.text)

\* a paragraph too long for chunk_size was split again, and its last piece
\* carried into the parts that follow
C28_Witness ==
    /\ ChunkedBy("recursive")
    /\ chunked.out.returned
    /\ chunked.text = TEXT_PARAGRAPHS
    /\ chunked.self.chunk_size = MaxChunkSize
    /\ Len(chunks) >= 4

\* C30: with the sentence strategy and max_sentences >= 2, every chunk holds
\* a sentence occurrence that no earlier chunk holds: a chunk after the first
\* begins with the sentence carried forward and goes on beyond it, so the
\* final flush never emits the carried sentence alone.
C30_EveryChunkBringsANewSentence ==
    (ChunkedBy("sentence") /\ chunked.self.max_sentences >= 2 /\ chunked.out.returned) =>
        \A k \in DOMAIN chunks : k > 1 =>
            \E from, carried, to \in DOMAIN Sentences :
                /\ from <= carried
                /\ carried < to
                /\ IsSentences(k - 1, from, carried)
                /\ IsSentences(k, carried, to)

(***************************************************************************)
(* Two Chunkers on one document: a run constructs Chunkers, one after the  *)
(* other, and calls chunk() on the one in hand.                            *)
(***************************************************************************)
\* n copies of a text, one after the other
Repeat(text, n) == [i \in 1..(n * Len(text)) |-> text[((i - 1) % Len(text)) + 1]]

AB == << " ", "a", "b" >>

\* a sentence of n words after its first
Sentence(first, n) == first \o Repeat(AB, n) \o << "." >>

\* 219 characters: the windows of 100 characters end at ";" and "." and start
\* at a capital letter, and the second sentence is longer than 100 characters
TEXT_MISALIGNED ==
    << "G", "o", ".", " ", "B", "b" >> \o Repeat(AB, 31) \o << ";", " " >>
        \o Sentence(<< "C", "c" >>, 32) \o SPACE \o Sentence(<< "D", "d" >>, 5)

\* 299 characters: three sentences of 99 characters
TEXT_ALIGNED ==
    Sentence(<< "A", "a" >>, 32) \o SPACE \o Sentence(<< "B", "b" >>, 32) \o SPACE
        \o Sentence(<< "C", "c" >>, 32)

\* 239 characters: six sentences of 39 characters
TEXT_SHORT_SENTENCES ==
    join(SPACE, [k \in 1..6 |-> Sentence(<< "A", "a" >>, 12)])

\* 257 characters: lines without a full stop
TEXT_LINES ==
    join(NEWLINE, [k \in 1..6 |-> << "I", "t", "e", "m" >> \o Repeat(AB, 12) \o << ".", " ", "E", "n", "d" >>])

LongTexts == { TEXT_MISALIGNED, TEXT_ALIGNED, TEXT_SHORT_SENTENCES, TEXT_LINES }

CompareSizes == { 50, 100 }

CompareConstructions ==
    { << "fixed", chunk_size, 0, DEFAULT_MAX_SENTENCES, DEFAULT_SIMILARITY_THRESHOLD >> :
         chunk_size \in CompareSizes }
    \cup { << "recursive", chunk_size, DEFAULT_OVERLAP, DEFAULT_MAX_SENTENCES,
              DEFAULT_SIMILARITY_THRESHOLD >> : chunk_size \in CompareSizes }

\* Chunker.__init__ of one more Chunker, which takes the place of the one in hand
ConstructNext(strategy, chunk_size, overlap, max_sentences, similarity_threshold) ==
    /\ chunker' = Chunker(strategy, chunk_size, overlap, max_sentences, similarity_threshold)
    /\ UNCHANGED << chunked, before, retrieverVars >>

CompareNext ==
    \/ \E c \in CompareConstructions : ConstructNext(c[1], c[2], c[3], c[4], c[5])
    \/ \E text \in LongTexts : ChunkText(text)

CompareSpec == ChunkInit /\ [][CompareNext]_vars

\* ends_mid_sentence of the test helpers
ends_mid_sentence(text) ==
    LET stripped == strip(text)
    IN  stripped # << >> /\ stripped[Len(stripped)] \notin { ".", "!", "?", ":", ";" }

\* starts_mid_sentence of the test helpers
starts_mid_sentence(text) ==
    LET stripped == strip(text)
    IN  stripped # << >> /\ stripped[1] \in LowerLetters

\* count_broken_chunks of the test helpers
count_broken_chunks(list) ==
    Cardinality({ k \in DOMAIN list :
                    ends_mid_sentence(list[k].text) \/ starts_mid_sentence(list[k].text) })

\* the last two calls chunked one document, the first with the fixed strategy
\* and overlap 0, the second with the recursive strategy and the same chunk_size
FixedThenRecursive ==
    /\ before.op = "chunk"
    /\ before.self.strategy = "fixed"
    /\ before.self.overlap = 0
    /\ ChunkedBy("recursive")
    /\ chunked.self.chunk_size = before.self.chunk_size
    /\ chunked.text = before.text
    /\ before.out.returned
    /\ chunked.out.returned

WholeSentencesFit ==
    /\ "\n" \notin Range(chunked.text)
    /\ \A k \in DOMAIN Sentences : Len(Sentences[k]) <= chunked.self.chunk_size
    /\ ~starts_mid_sentence(chunked.text)
    /\ ~ends_mid_sentence(chunked.text)

ConfigRrfKs == { -1, 60 }

ConfigInit ==
    /\ kind = "hybrid"
    /\ retriever \in { HybridRetriever(DEFAULT_ALPHA, rrf_k) : rrf_k \in ConfigRrfKs }
    /\ last = NoCall
    /\ indexed = NeverIndexed
    /\ earlier = NoCall
    /\ threads = NoThreads
    /\ NoChunking

ConfigNext ==
    \/ \E documents \in Corpora : HybridIndex(documents)
    \/ \E query \in Queries, top_k \in TopKs : HybridRetrieve(query, top_k) /\ UNCHANGED earlier

ConfigSpec == ConfigInit /\ [][ConfigNext]_vars

\* C18: no failure caused by a constructor argument surfaces in an index() or
\* retrieve() call: a call on a constructed retriever returns, or raises the
\* state error of an empty index.
C18_NoConfigurationErrorAtCallTime ==
    last.out.raised \in { "none", "RuntimeError" }

(***************************************************************************)
(* index() and retrieve() of one BM25Retriever run by two threads.  Each   *)
(* call is a sequence of steps, one per write of index() and one per read  *)
(* of retrieve(); with threads.mutex the callers take a lock around every  *)
(* call.                                                                   *)
(***************************************************************************)
ConcCorpora == { CORPUS_TWO, CORPUS_THREE }

ConcQueries == { QUERY_RETURN_WINDOW }

MaxIndexCalls == 2

MaxRetrieveCalls == 1

ConcInit ==
    /\ kind = "bm25"
    /\ retriever = BM25Retriever(DEFAULT_K1, DEFAULT_B)
    /\ last = NoCall
    /\ indexed = NeverIndexed
    /\ earlier = NoCall
    /\ threads \in { [NoThreads EXCEPT !.mutex = mutex] : mutex \in BOOLEAN }
    /\ NoChunking

\* the lock is free for a caller that takes it
CanEnter == threads.mutex => threads.lock = "free"

Entered(thread) == IF threads.mutex THEN thread ELSE "free"

concFrame == << kind, earlier, chunkerVars >>

\* index(documents) is called
IndexEnter(documents) ==
    /\ threads.index.pc = "idle"
    /\ threads.index_calls < MaxIndexCalls
    /\ CanEnter
    /\ threads' = [threads EXCEPT !.lock = Entered("index"),
                                  !.index_calls = @ + 1,
                                  !.index = [pc |-> "set_docs", documents |-> documents,
                                             i |-> 1]]
    /\ UNCHANGED << retriever, last, indexed, concFrame >>

\* self._docs = documents
IndexSetDocs ==
    /\ threads.index.pc = "set_docs"
    /\ retriever' = [retriever EXCEPT !._docs = threads.index.documents]
    /\ threads' = [threads EXCEPT !.index.pc = "reset_tf"]
    /\ UNCHANGED << last, indexed, concFrame >>

\* self._tf = []
IndexResetTf ==
    /\ threads.index.pc = "reset_tf"
    /\ retriever' = [retriever EXCEPT !._tf = << >>]
    /\ threads' = [threads EXCEPT !.index.pc = "reset_df"]
    /\ UNCHANGED << last, indexed, concFrame >>

\* self._df = {}
IndexResetDf ==
    /\ threads.index.pc = "reset_df"
    /\ retriever' = [retriever EXCEPT !._df = << >>]
    /\ threads' = [threads EXCEPT !.index.pc = "documents"]
    /\ UNCHANGED << last, indexed, concFrame >>

index_document_without_df(self, doc) ==
    [self EXCEPT !._tf = Append(@, term_counts(_tokenize(doc.text)))]

\* one pass of the loop over documents: the entries of one document
index_document(self, doc) ==
    LET tf == term_counts(_tokenize(doc.text))
    IN  [self EXCEPT !._tf = Append(@, tf),
                     !._df = [term \in DOMAIN @ \cup DOMAIN tf |->
                                 Get(@, term, 0) + (IF term \in DOMAIN tf THEN 1 ELSE 0)]]

IndexDocument ==
    /\ threads.index.pc = "documents"
    /\ threads.index.i <= Len(threads.index.documents)
    /\ retriever' = index_document(retriever, At(threads.index.documents, threads.index.i))
    /\ threads' = [threads EXCEPT !.index.i = @ + 1]
    /\ UNCHANGED << last, indexed, concFrame >>

\* total_len and self._avgdl, and the return of index()
index_avgdl(documents) ==
    IF documents # << >>
    THEN FDiv(SumSeq([i \in DOMAIN documents |-> Len(_tokenize(At(documents, i).text))]),
              Len(documents))
    ELSE Fix

IndexSetAvgdl ==
    /\ threads.index.pc = "documents"
    /\ threads.index.i > Len(threads.index.documents)
    /\ retriever' = [retriever EXCEPT !._avgdl = index_avgdl(threads.index.documents)]
    /\ threads' = [threads EXCEPT !.lock = "free", !.index = NoIndexing]
    /\ indexed' = [called |-> TRUE, documents |-> threads.index.documents,
                   rebuilt |-> indexed.called]
    /\ UNCHANGED << last, concFrame >>

\* retrieve(query, top_k) is called
RetrieveEnter(query, top_k) ==
    /\ threads.retrieve.pc = "idle"
    /\ threads.retrieve_calls < MaxRetrieveCalls
    /\ CanEnter
    /\ threads' = [threads EXCEPT !.lock = Entered("retrieve"),
                                  !.retrieve_calls = @ + 1,
                                  !.retrieve = [NoRetrieving EXCEPT !.pc = "check",
                                                                    !.query = query,
                                                                    !.top_k = top_k]]
    /\ UNCHANGED << retriever, last, indexed, concFrame >>

\* retrieve() ends with the outcome out
RetrieveExit(out, mixed) ==
    /\ last' = Call("retrieve", threads.retrieve.query, threads.retrieve.top_k, out)
    /\ threads' = [threads EXCEPT !.lock = "free",
                                  !.retrieve = [NoRetrieving EXCEPT
                                                   !.docs = threads.retrieve.docs,
                                                   !.mixed = threads.retrieve.mixed \/ mixed]]
    /\ UNCHANGED << retriever, indexed, concFrame >>

\* if not self._docs: raise RuntimeError
RetrieveCheck ==
    /\ threads.retrieve.pc = "check"
    /\ IF retriever._docs = << >>
       THEN RetrieveExit(Raise("RuntimeError"), FALSE)
       ELSE /\ threads' = [threads EXCEPT !.retrieve.pc = "len"]
            /\ UNCHANGED << retriever, last, indexed, concFrame >>

\* n = len(self._docs)
RetrieveLen ==
    /\ threads.retrieve.pc = "len"
    /\ threads' = [threads EXCEPT !.retrieve.pc = "enumerate",
                                  !.retrieve.n = Len(retriever._docs)]
    /\ UNCHANGED << retriever, last, indexed, concFrame >>

\* enumerate(self._docs): the loop runs over the list self._docs is bound to now
RetrieveEnumerate ==
    /\ threads.retrieve.pc = "enumerate"
    /\ threads' = [threads EXCEPT !.retrieve.pc = "score",
                                  !.retrieve.docs = retriever._docs,
                                  !.retrieve.i = 1]
    /\ UNCHANGED << retriever, last, indexed, concFrame >>

\* self._tf, self._df and self._avgdl are those index() builds for docs
FullyBuilt(self, docs) ==
    LET built == BM25Retriever_index(self, docs)
    IN  /\ self._docs = docs
        /\ self._tf = built._tf
        /\ DOMAIN self._df = DOMAIN built._df
        /\ \A term \in DOMAIN built._df : At(self._df, term) = At(built._df, term)
        /\ self._avgdl = built._avgdl

\* one pass of the loop over the documents: self._tf[i] raises IndexError
\* without an entry i, and dl / self._avgdl raises ZeroDivisionError when
\* _avgdl is still 0.0 and a query term is in the document
RetrieveScore ==
    /\ threads.retrieve.pc = "score"
    /\ threads.retrieve.i <= Len(threads.retrieve.docs)
    /\ LET i == threads.retrieve.i
           query_terms == _tokenize(threads.retrieve.query)
           mixed == ~FullyBuilt(retriever, threads.retrieve.docs)
       IN  IF i > Len(retriever._tf)
           THEN RetrieveExit(Raise("IndexError"), mixed)
           ELSE IF retriever._avgdl = 0
                   /\ \E k \in DOMAIN query_terms :
                         At(query_terms, k) \in DOMAIN At(retriever._tf, i)
           THEN RetrieveExit(Raise("ZeroDivisionError"), mixed)
           ELSE /\ threads' =
                       [threads EXCEPT
                           !.retrieve.i = @ + 1,
                           !.retrieve.mixed = @ \/ mixed,
                           !.retrieve.scores =
                               Append(@, << SumSeq([k \in DOMAIN query_terms |->
                                                bm25_term_score(retriever, i,
                                                    At(query_terms, k),
                                                    threads.retrieve.n,
                                                    dict_sum(At(retriever._tf, i)))]),
                                            i >>)]
                /\ UNCHANGED << retriever, last, indexed, concFrame >>

\* scores.sort(reverse=True) and the results: self._docs[idx] raises
\* IndexError without a document idx
RetrieveResults ==
    /\ threads.retrieve.pc = "score"
    /\ threads.retrieve.i > Len(threads.retrieve.docs)
    /\ LET ranked == SliceTo(sort_reverse(threads.retrieve.scores), threads.retrieve.top_k)
           mixed == ~FullyBuilt(retriever, threads.retrieve.docs)
       IN  IF \E r \in DOMAIN ranked : At(At(ranked, r), 2) > Len(retriever._docs)
           THEN RetrieveExit(Raise("IndexError"), mixed)
           ELSE RetrieveExit(Return(bm25_results(retriever, ranked)), mixed)

ConcNext ==
    \/ \E documents \in ConcCorpora : IndexEnter(documents)
    \/ IndexSetDocs
    \/ IndexResetTf
    \/ IndexResetDf
    \/ IndexDocument
    \/ IndexSetAvgdl
    \/ \E query \in ConcQueries : RetrieveEnter(query, MaxTopK)
    \/ RetrieveCheck
    \/ RetrieveLen
    \/ RetrieveEnumerate
    \/ RetrieveScore
    \/ RetrieveResults

ConcSpec == ConcInit /\ [][ConcNext]_vars

\* the last retrieve() call has ended
Finished == Retrieved /\ threads.retrieve.pc = "idle"

\* what retrieve() returns on the fully built index of the documents it ran over
Isolated ==
    BM25Retriever_retrieve(BM25Retriever_index(retriever, threads.retrieve.docs),
                           last.query, last.top_k)

\* C19: index() and retrieve() of one retriever are not safe to run at the
\* same time.  Under mutual exclusion retrieve() reads a fully built index
\* only and ends as it does on that index alone; without it (C19_Witness) a
\* retrieve() is reachable that reads the new document list with a term
\* table that is old or partly rebuilt.
C19_MutualExclusionShowsFullIndexOnly ==
    threads.mutex =>
        /\ ~threads.retrieve.mixed
        /\ Finished => last.out = Isolated

C19_Witness ==
    /\ ~threads.mutex
    /\ Finished
    /\ threads.retrieve.mixed
    /\ threads.retrieve.docs = indexed.documents
    /\ indexed.rebuilt
    /\ last.out # Isolated

(***************************************************************************)
(* The caller keeps the list it gave to index(): self._docs is that list   *)
(* object, so what the caller does to it is done to self._docs.            *)
(***************************************************************************)
AliasCorpora == { CORPUS_EMPTY, CORPUS_ONE, CORPUS_TWO }

\* documents.clear() on the list given to the last index()
CallerClears ==
    /\ indexed.called
    /\ retriever' = [retriever EXCEPT !._docs = << >>]
    /\ UNCHANGED << kind, threads, last, indexed, earlier, chunkerVars >>

\* documents.append(doc) on the list given to the last index(), while the
\* list is as index() was given it
CallerAppends(doc) ==
    /\ indexed.called
    /\ retriever._docs = indexed.documents
    /\ retriever' = [retriever EXCEPT !._docs = Append(@, doc)]
    /\ UNCHANGED << kind, threads, last, indexed, earlier, chunkerVars >>

AliasNext ==
    \/ \E documents \in AliasCorpora : BM25Index(documents)
    \/ \E query \in Queries, top_k \in TopKs : BM25Retrieve(query, top_k) /\ UNCHANGED earlier
    \/ CallerClears
    \/ \E doc \in Range(CORPUS_THREE) : CallerAppends(doc)

AliasSpec == DetInit /\ [][AliasNext]_vars

\* C20: a retriever owns its index: whatever the caller does to the list it
\* gave to index(), a later retrieve() ends as it does on the corpus as it
\* was when index() was called.
C20_CallerCannotChangeTheIndex ==
    Retrieved =>
        last.out = BM25Retriever_retrieve(
                       BM25Retriever_index(BM25Retriever(DEFAULT_K1, DEFAULT_B),
                                           indexed.documents),
                       last.query, last.top_k)

(***************************************************************************)
(* CosineRetriever: the IDF factor and the score of a document queried      *)
(* with its own text                                                        *)
(***************************************************************************)
\* df[term]: the number of documents whose term frequencies hold the term
cosine_df(documents, term) ==
    Cardinality({ i \in DOMAIN documents :
                     term \in DOMAIN CosineRetriever_tf(At(documents, i).text) })

CosineIndexed == kind = "cosine" /\ indexed.called /\ indexed.documents # << >>

\* C22: the IDF factor ln((N+1)/(df+1)) of every term of every indexed
\* document is strictly positive, so that no indexed term is weighted to zero.
C22_IdfIsPositive ==
    CosineIndexed =>
        \A i \in DOMAIN indexed.documents :
            \A term \in DOMAIN CosineRetriever_tf(At(indexed.documents, i).text) :
                cosine_idf(Len(indexed.documents), cosine_df(indexed.documents, term)) > 0

\* a document that repeats a term it shares with a shorter document
TEXT_REPEATED ==
    << "r", "e", "f", "u", "n", "d", " ", "r", "e", "f", "u", "n", "d", " ", "r", "e", "f", "u", "n", "d", " ", "p", "o", "l", "i", "c", "y" >>

TEXT_SINGLE ==
    << "r", "e", "f", "u", "n", "d" >>

TEXT_OTHER ==
    << "s", "h", "i", "p", "p", "i", "n", "g" >>

CORPUS_SKEWED ==
    << Doc("d", TEXT_REPEATED), Doc("e", TEXT_SINGLE), Doc("f", TEXT_OTHER) >>

SelfCorpora == { CORPUS_ONE, CORPUS_TWO, CORPUS_THREE, CORPUS_SKEWED }

(***************************************************************************)
(* A CosineRetriever queried with the texts of the documents it indexed    *)
(***************************************************************************)
SelfInit ==
    /\ kind = "cosine"
    /\ retriever = CosineRetriever
    /\ last = NoCall
    /\ indexed = NeverIndexed
    /\ earlier = NoCall
    /\ threads = NoThreads
    /\ NoChunking

SelfNext ==
    \/ \E documents \in SelfCorpora : CosineIndex(documents)
    \/ \E i \in DOMAIN indexed.documents, top_k \in TopKs :
           CosineRetrieve(indexed.documents[i].text, top_k) /\ Remember

SelfSpec == SelfInit /\ [][SelfNext]_vars

\* the similarity of the query of the last call to the indexed document at
\* position i, before the results are cut to top_k
similarity(i) ==
    LET scores == cosine_scores(retriever, last.query)
    IN  At(At(scores, CHOOSE r \in DOMAIN scores : At(At(scores, r), 2) = i), 1)

\* C23: a query that is the exact text of an indexed document d gives d a
\* similarity that no other indexed document exceeds.
C23_OwnTextScoresHighest ==
    (CosineIndexed /\ Answered) =>
        \A i \in DOMAIN indexed.documents :
            indexed.documents[i].text = last.query =>
                \A j \in DOMAIN indexed.documents : similarity(i) >= similarity(j)

(***************************************************************************)
(* HybridRetrievers constructed with different alpha                       *)
(***************************************************************************)
Alphas == { 0, DEFAULT_ALPHA, Fix }

AlphaCorpora == { CORPUS_ONE, CORPUS_TWO, CORPUS_SKEWED }

AlphaInit ==
    /\ kind = "hybrid"
    /\ retriever \in { HybridRetriever(alpha, rrf_k) : alpha \in Alphas, rrf_k \in RrfKs }
    /\ last = NoCall
    /\ indexed = NeverIndexed
    /\ earlier = NoCall
    /\ threads = NoThreads
    /\ NoChunking

AlphaNext ==
    \/ \E documents \in AlphaCorpora : HybridIndex(documents)
    \/ \E query \in Queries, top_k \in TopKs : HybridRetrieve(query, top_k) /\ UNCHANGED earlier

AlphaSpec == AlphaInit /\ [][AlphaNext]_vars

\* the retriever, had it been constructed with the default alpha
WithDefaultAlpha == [retriever EXCEPT !.alpha = DEFAULT_ALPHA]

DEFAULT_TOP_K == 5

DEFAULT_RELEVANCE_THRESHOLD == Fix \div 100

DEFAULT_DEDUP_THRESHOLD == (7 * Fix) \div 10

ProductionRetriever(top_k, relevance_threshold, dedup_threshold) ==
    [top_k |-> top_k, relevance_threshold |-> relevance_threshold,
     dedup_threshold |-> dedup_threshold,
     _retriever |-> HybridRetriever(DEFAULT_ALPHA, 60)]

ProductionRetriever_index(self, documents) ==
    [self EXCEPT !._retriever = HybridRetriever_index(self._retriever, documents)]

IsLongToken(run) == IsLowerWord(run, 3)

\* re.findall(r"\b[a-z]{3,}\b", s.lower())
findall_long_words(s) == SelectSeq(WordRuns(lower(s)), IsLongToken)

\* ProductionRetriever._jaccard(a, b) >= threshold; an empty union gives 0.0
jaccard_at_least(a, b, threshold) ==
    LET ta == Range(findall_long_words(a))
        tb == Range(findall_long_words(b))
        union == ta \cup tb
    IN  IF union = {} THEN 0 >= threshold
        ELSE Cardinality(ta \cap tb) * Fix >= threshold * Cardinality(union)

\* ProductionRetriever._deduplicate
RECURSIVE deduplicate_from(_, _, _)
deduplicate_from(self, kept, rest) ==
    IF rest = << >> THEN kept
    ELSE LET r == Head(rest)
             is_dup == \E k \in DOMAIN kept :
                           jaccard_at_least(r.text, At(kept, k).text, self.dedup_threshold)
         IN  deduplicate_from(self, IF is_dup THEN kept ELSE Append(kept, r), Tail(rest))

ProductionRetriever_deduplicate(self, found) == deduplicate_from(self, << >>, found)

\* scored.sort(key=lambda x: x[0], reverse=True): stable, equal keys keep
\* their order
RECURSIVE InsertByKey(_, _)
InsertByKey(sorted, x) ==
    IF sorted = << >> THEN << x >>
    ELSE IF At(Head(sorted), 1) >= At(x, 1)
    THEN << Head(sorted) >> \o InsertByKey(Tail(sorted), x)
    ELSE << x >> \o sorted

RECURSIVE sorted_by_key(_, _)
sorted_by_key(items, n) ==
    IF n = 0 THEN << >>
    ELSE InsertByKey(sorted_by_key(items, n - 1), At(items, n))

\* ProductionRetriever._rerank
ProductionRetriever_rerank(query, found) ==
    LET query_terms == Range(findall_long_words(query))
        tf(r) == LET text_tokens == findall_long_words(r.text)
                     counts == [t \in query_terms |-> Count(text_tokens, t)]
                 IN  dict_sum(counts)
        scored == sorted_by_key([j \in DOMAIN found |-> << tf(At(found, j)), At(found, j) >>],
                                Len(found))
    IN  [j \in DOMAIN scored |-> [At(At(scored, j), 2) EXCEPT !.rank = j]]

\* [r for r in candidates if r.score >= self.relevance_threshold]
RECURSIVE relevant_of(_, _)
relevant_of(self, candidates) ==
    IF candidates = << >> THEN << >>
    ELSE IF Head(candidates).score >= self.relevance_threshold
    THEN << Head(candidates) >> \o relevant_of(self, Tail(candidates))
    ELSE relevant_of(self, Tail(candidates))

\* ProductionRetriever.retrieve; an exception of the HybridRetriever propagates
ProductionRetriever_retrieve(self, query) ==
    LET candidates == HybridRetriever_retrieve(self._retriever, query, self.top_k * 2)
        relevant == relevant_of(self, candidates.results)
    IN  IF ~candidates.returned THEN candidates
        ELSE IF relevant = << >> THEN Return(<< >>)
        ELSE Return(SliceTo(
                 ProductionRetriever_rerank(query,
                     ProductionRetriever_deduplicate(self, relevant)),
                 self.top_k))

(***************************************************************************)
(* A ProductionRetriever with its default thresholds                       *)
(***************************************************************************)
ProductionTopKs == { 1, 2, DEFAULT_TOP_K }

ProductionCorpora == { CORPUS_EMPTY, CORPUS_ONE, CORPUS_TWO, CORPUS_THREE, CORPUS_SKEWED }

ProductionInit ==
    /\ kind = "production"
    /\ retriever \in { ProductionRetriever(top_k, DEFAULT_RELEVANCE_THRESHOLD,
                                           DEFAULT_DEDUP_THRESHOLD) :
                          top_k \in ProductionTopKs }
    /\ last = NoCall
    /\ indexed = NeverIndexed
    /\ earlier = NoCall
    /\ threads = NoThreads
    /\ NoChunking

ProductionIndex(documents) ==
    /\ kind = "production"
    /\ retriever' = ProductionRetriever_index(retriever, documents)
    /\ Indexed(documents)

ProductionRetrieve(query) ==
    /\ kind = "production"
    /\ last' = Call("retrieve", query, retriever.top_k,
                    ProductionRetriever_retrieve(retriever, query))
    /\ UNCHANGED << kind, threads, retriever, indexed, chunkerVars >>

ProductionNext ==
    \/ \E documents \in ProductionCorpora : ProductionIndex(documents)
    \/ \E query \in Queries : ProductionRetrieve(query) /\ Remember

ProductionSpec == ProductionInit /\ [][ProductionNext]_vars

\* the query has no token in common with any indexed document
NoDocumentIsRelevant ==
    \A i \in DOMAIN indexed.documents :
        Tokens(last.query) \cap Tokens(indexed.documents[i].text) = { }

\* C25: ProductionRetriever.retrieve with the default relevance_threshold
\* returns an empty list when the query shares no token with any indexed
\* document, and a non-empty list only when some document is relevant.
C25_NothingRelevantGivesEmptyList ==
    (kind = "production" /\ Answered) =>
        /\ NoDocumentIsRelevant => results = << >>
        /\ results # << >> => ~NoDocumentIsRelevant

(***************************************************************************)
(* The order of the results of BM25Retriever.retrieve                      *)
(***************************************************************************)
\* the scores of the indexed documents for the query of the last call, before
\* rounding
RawScores ==
    [i \in DOMAIN indexed.documents |-> bm25_score(retriever, i, _tokenize(last.query))]

\* the positions in the indexed corpus of the documents of the results
Positions ==
    [r \in DOMAIN results |->
        CHOOSE i \in DOMAIN indexed.documents :
            indexed.documents[i].id = results[r].chunk_id]

\* with the scores raw, document i is ranked before document j
RankedBefore(raw, i, j) == raw[i] > raw[j] \/ (raw[i] = raw[j] /\ i > j)

\* C26: BM25Retriever.retrieve orders its results by score descending and,
\* among documents of equal score, puts the document with the larger position
\* in the corpus first; the results are the first top_k documents of that
\* order, so a query matching no document returns the last top_k documents of
\* the corpus in reverse corpus order.
C26_TiesGoToTheLaterDocument ==
    (kind = "bm25" /\ Answered) =>
        LET raw == RawScores
            pos == Positions
            left == DOMAIN indexed.documents \ Range(pos)
        IN  /\ Len(results) = Min(last.top_k, Len(indexed.documents))
            /\ \A r \in DOMAIN results :
                  /\ r + 1 \in DOMAIN results => RankedBefore(raw, pos[r], pos[r + 1])
                  /\ \A i \in left : RankedBefore(raw, pos[r], i)
            /\ (\A i \in DOMAIN raw : raw[i] = 0) =>
                  \A r \in DOMAIN results :
                      results[r].chunk_id
                          = indexed.documents[Len(indexed.documents) - r + 1].id

\* a query that matches no document of the 22-document corpus returned its
\* last documents, the last one first
C26_Witness ==
    /\ kind = "bm25"
    /\ Answered
    /\ indexed.documents = CORPUS_MID
    /\ \A i \in DOMAIN indexed.documents : RawScores[i] = 0
    /\ Len(results) = MaxTopK
    /\ results[1].chunk_id = CORPUS_MID[MidN].id
    /\ results[2].chunk_id = CORPUS_MID[MidN - 1].id

(***************************************************************************)
(* HybridRetriever asked for more results than it fetches candidates       *)
(***************************************************************************)
\* top_k up to and beyond the 20 candidates asked of each sub-retriever
WideTopKs == { 1, 20, 21, MidN }

WideCorpora == { CORPUS_ONE, CORPUS_THREE, CORPUS_MID }

WideInit ==
    /\ kind = "hybrid"
    /\ retriever \in Constructed("hybrid")
    /\ last = NoCall
    /\ indexed = NeverIndexed
    /\ earlier = NoCall
    /\ threads = NoThreads
    /\ NoChunking

WideNext ==
    \/ \E documents \in WideCorpora : HybridIndex(documents)
    \/ \E query \in Queries, top_k \in WideTopKs :
           HybridRetrieve(query, top_k) /\ UNCHANGED earlier

WideSpec == WideInit /\ [][WideNext]_vars

\* C29: on an index of N >= 1 documents with unique ids,
\* HybridRetriever.retrieve returns exactly min(top_k, N) results for every
\* top_k >= 1, also for top_k > 20.
C29_HybridReturnsTopKOrAll ==
    (kind = "hybrid" /\ Answered /\ last.top_k >= 1) =>
        Len(results) = Min(last.top_k, Len(indexed.documents))
====
